---- MODULE Spec2Model ----
(***************************************************************************)
(* A model of nsvm: the out-of-core one-vs-one SVM store, its initializer, *)
(* the streaming sub-gradient trainer and the voting classifier.           *)
(*                                                                         *)
(* Files are sequences of bytes (0..255).  Integers are stored little-     *)
(* endian with the widths the code writes.  A double is modelled as a      *)
(* signed fixed-point number with Scale units per 1.0, stored in           *)
(* SizeofDouble bytes (two's complement, little-endian), so that 0.0 is    *)
(* eight zero bytes as in IEEE-754 and "byte-identical" has a meaning.     *)
(* The build modelled is the one the README names: gcc on an LP64 system   *)
(* (long is wider than unsigned int).                                      *)
(***************************************************************************)
EXTENDS Integers, Sequences, FiniteSets, TLC

\* ----------------------------------------------------------------- bounds
MaxClasses == 3      \* most first-level directories in the input directory
MaxSteps == 1        \* training steps modelled (the code runs NUM_STEPS)
Scale == 10000       \* fixed-point units per 1.0 of a modelled double
WordBits == 16       \* modelled width of unsigned int
OffsetBits == 3      \* modelled width of uintmax_t and uint64_t

\* -------------------------------------------------------- program constants
SizeofDouble == 8
LambdaDenominator == 10000

\* LAMBDA (0.0001) in fixed point; LAMBDA itself is a reserved word
Lambda == Scale \div LambdaDenominator

WordModulus == 2 ^ WordBits

OffsetModulus == 2 ^ OffsetBits

\* ------------------------------------------------------------ byte helpers
Abs(x) == IF x < 0 THEN -x ELSE x

Min(a, b) == IF a < b THEN a ELSE b

\* Little-endian two's-complement bytes of v in k bytes (|v| < 2^31).
LE(v, k) ==
  [i \in 1..k |->
     IF i <= 4 THEN (v \div (256 ^ (i - 1))) % 256
     ELSE IF v < 0 THEN 255 ELSE 0]

\* The signed value of a little-endian field whose bytes above the fourth
\* are sign extension (all values of the model are below 2^31).
Decode(bs) ==
  LET n == Len(bs)
      b(i) == IF i <= n THEN bs[i] ELSE 0
      top == IF n >= 4 THEN (IF (IF n > 4 THEN bs[n] ELSE bs[4]) >= 128
                             THEN b(4) - 256 ELSE b(4))
             ELSE 0
  IN  b(1) + 256 * b(2) + 65536 * b(3) + 16777216 * top

\* An unsigned field of at most four significant bytes.
DecodeU(bs) ==
  LET n == Len(bs)
      b(i) == IF i <= n THEN bs[i] ELSE 0
  IN  b(1) + 256 * b(2) + 65536 * b(3) + 16777216 * b(4)

Slice(s, from, n) == SubSeq(s, from + 1, from + n)

\* fread of n bytes at 0-based position pos: fails at end of file.
CanRead(file, pos, n) == pos >= 0 /\ pos + n <= Len(file)

\* fwrite of bytes bs at 0-based position pos (pos <= Len(file)).
WriteAt(file, pos, bs) ==
  SubSeq(file, 1, pos) \o bs \o SubSeq(file, pos + Len(bs) + 1, Len(file))

Zeros(n) == [i \in 1..n |-> 0]

Range(s) == {s[i] : i \in 1..Len(s)}

\* ------------------------------------------------------------- fixed point
FromInt(i) == i * Scale

\* a / b rounded to nearest, b > 0
RoundDiv(a, b) ==
  IF a >= 0 THEN (a + b \div 2) \div b ELSE -((-a + b \div 2) \div b)

FMul(a, b) == RoundDiv(a * b, Scale)

FDiv(a, b) == IF b > 0 THEN RoundDiv(a * Scale, b) ELSE -RoundDiv(a * Scale, -b)

\* r*r <= s*Scale*Scale without leaving 31 bits (r = q*Scale + m)
SqLe(r, s) ==
  LET q == r \div Scale
      m == r % Scale
      t == 2 * q * m * Scale + m * m
      d == s - q * q
      ss == Scale * Scale
  IN  d >= 0 /\ (t \div ss < d \/ (t \div ss = d /\ t % ss = 0))

RECURSIVE SqrtSearch(_, _, _)
SqrtSearch(lo, hi, s) ==
  IF lo >= hi THEN lo
  ELSE LET mid == (lo + hi + 1) \div 2
       IN  IF SqLe(mid, s) THEN SqrtSearch(mid, hi, s)
           ELSE SqrtSearch(lo, mid - 1, s)

\* sqrt((double)s) for an integer s >= 0, in fixed point
SqrtOfInt(s) ==
  LET isq == CHOOSE r \in 0..s : r * r <= s /\ (r + 1) * (r + 1) > s
  IN  SqrtSearch(isq * Scale, (isq + 1) * Scale, s)

EncodeDouble(v) == LE(v, SizeofDouble)

DecodeDouble(bs) == Decode(bs)

\* ------------------------------------------------------------- BMP files
\* A BMP file as bytes: "BM", file size at 2, offset to the pixel data at 10,
\* width at 18, height at 22 (negative: rows stored top-down), bits per
\* pixel at 28.  The 54 bytes of BITMAPFILEHEADER + BITMAPINFOHEADER.
BmpHeaderSize == 14 + 40

MakeBmp(w, h, bpp, data) ==
  <<66, 77>> \o LE(BmpHeaderSize + Len(data), 4) \o Zeros(4)
  \o LE(BmpHeaderSize, 4) \o LE(40, 4) \o LE(w, 4) \o LE(h, 4)
  \o LE(1, 2) \o LE(bpp, 2) \o Zeros(24) \o data

RECURSIVE StoreRows(_, _)
StoreRows(rows, pad) ==
  IF rows = <<>> THEN <<>>
  ELSE Head(rows) \o Zeros(pad) \o StoreRows(Tail(rows), pad)

Reverse(s) == [i \in 1..Len(s) |-> s[Len(s) + 1 - i]]

\* rows: the image's rows, top row first, each of w * bpp/8 channel bytes
BmpRowPad(w, bpp) == (4 - ((w * (bpp \div 8)) % 4)) % 4

TopDown(w, bpp, rows) ==
  MakeBmp(w, -Len(rows), bpp, StoreRows(rows, BmpRowPad(w, bpp)))

BottomUp(w, bpp, rows) ==
  MakeBmp(w, Len(rows), bpp, StoreRows(Reverse(rows), BmpRowPad(w, bpp)))

hasBmpMagicNumber(file) ==
  CanRead(file, 0, 2) /\ Slice(file, 0, 2) = <<66, 77>>

\* rowPadding = (4 - width % 4) % 4, as every function of the code computes it
RowPadding(width) == (4 - (width % 4)) % 4

IsAcceptableBpp(bpp) == bpp \in {24, 1, 2, 4, 8, 16, 32}

\* The header fields getBmpDims reads, at the offsets it seeks to.
BmpFields(file) ==
  [fileSize |-> DecodeU(Slice(file, 2, 4)),
   headersSize |-> DecodeU(Slice(file, 10, 4)),
   width |-> DecodeU(Slice(file, 18, 4)),
   height |-> Decode(Slice(file, 22, 4)),
   bitsPerPixel |-> DecodeU(Slice(file, 28, 2))]

\* expectedSize: the padded rows and the headers
ExpectedSize(h) ==
  (h.width + RowPadding(h.width)) * Abs(h.height) * (h.bitsPerPixel \div 8)
    + h.headersSize

\* getBmpDims' checks of the fields h it has read
CheckBmpFields(file, h) ==
  [ok |-> /\ hasBmpMagicNumber(file)
          /\ CanRead(file, 28, 2)
          /\ h.width # 0
          /\ h.height # 0
          /\ IsAcceptableBpp(h.bitsPerPixel)
          /\ h.bitsPerPixel % 8 = 0
          /\ h.fileSize = ExpectedSize(h),
   width |-> h.width, height |-> h.height, bitsPerPixel |-> h.bitsPerPixel]

getBmpDims(file) == CheckBmpFields(file, BmpFields(file))

\* ------------------------------------------------- the files of the model
Img1 == TopDown(2, 8, << <<1, 0>>, <<0, 1>> >>)
Img3 == TopDown(2, 8, << <<0, 2>>, <<1, 0>> >>)
Blank == TopDown(2, 8, << <<0, 0>>, <<0, 0>> >>)
ImgUp == BottomUp(2, 8, << <<1, 2>>, <<0, 0>> >>)
BlankUp == BottomUp(2, 8, << <<0, 0>>, <<0, 0>> >>)
Wide1 == TopDown(4, 16, << <<1, 0, 0, 2, 0, 0, 1, 0>> >>)
Wide2 == TopDown(4, 16, << <<0, 0, 0, 0, 0, 1, 2, 0>> >>)

\* The contents of a class directory, in readdir order.
Populations ==
  << <<Img1, Img3>>, <<Blank, ImgUp>>, <<ImgUp>>, <<Wide1, Wide2>>, <<>> >>

\* The files offered for classification.
Queries == <<Img1, Blank, ImgUp, BlankUp, Wide1, Wide2>>

\* The name of the i-th first-level directory (one or two letters).
ClassName(i) == [k \in 1..(1 + ((i + 1) % 2)) |-> 96 + i]

\* ------------------------------------------------------- the store's layout
\* "NSVM"
SvmMagicNumber == <<78, 83, 86, 77>>

\* magic[4], doubleSize:u8, width:u32, height:i32, bitsPerPixel:u16: the
\* position of the numClasses field
NumClassesFieldOffset == 4 + 1 + 4 + 4 + 2

\* ------------------------------------------------------- allFilesSameDims
\* One BMP of the directory, of dimensions s, against the directory's
\* dimensions d so far: the first BMP sets them, the others are compared.
CompareDims(d, s) ==
  IF d.height = 0 /\ d.width = 0 /\ d.bitsPerPixel = 0 THEN s
  ELSE IF ~s.ok THEN [d EXCEPT !.ok = FALSE]
  ELSE IF \/ s.width # d.width
          \/ Abs(s.height) # Abs(d.height)
          \/ s.bitsPerPixel # d.bitsPerPixel
  THEN [d EXCEPT !.ok = FALSE]
  ELSE d

RECURSIVE SameDimsLoop(_, _)
SameDimsLoop(files, d) ==
  IF files = <<>> \/ ~d.ok THEN d
  ELSE IF ~hasBmpMagicNumber(Head(files)) THEN SameDimsLoop(Tail(files), d)
  ELSE SameDimsLoop(Tail(files), CompareDims(d, getBmpDims(Head(files))))

allFilesSameDims(files) ==
  SameDimsLoop(files, [ok |-> TRUE, width |-> 0, height |-> 0,
                       bitsPerPixel |-> 0])

\* A faulty variant of NumInitialVectors: the inner loop started at 1
\* instead of at i.
NumInitialVectorsSquare(numClasses) ==
  Cardinality((1..(numClasses - 1)) \X (1..(numClasses - 1)))

\* ---------------------------------------------------- initializeOutputFile
\* The number of iterations of the two outer loops that write the vectors.
NumInitialVectors(numClasses) ==
  Cardinality({p \in (1..(numClasses - 1)) \X (1..(numClasses - 1)) :
                 p[2] >= p[1]})

\* A faulty variant of AcceptDir: the heights compared without their signs.
AcceptDirAnyHeight(st, nameBytes, d) ==
  IF ~d.ok THEN st
  ELSE IF st.numClasses # 0
  THEN IF \/ d.width # st.width
          \/ Abs(d.height) # Abs(st.height)
          \/ d.bitsPerPixel # st.bitsPerPixel
          \/ d.bitsPerPixel % 8 # 0
       THEN st
       ELSE [st EXCEPT !.file = st.file \o nameBytes,
                       !.numClasses = st.numClasses + 1]
  ELSE [file |-> st.file \o LE(d.width, 4) \o LE(d.height, 4)
                   \o LE(d.bitsPerPixel, 2) \o LE(0, 8) \o nameBytes,
        width |-> d.width, height |-> d.height,
        bitsPerPixel |-> d.bitsPerPixel, numClasses |-> 1]

\* A faulty variant of AcceptDir: the class count in the header is kept up
\* to date with every class accepted.
AcceptDirCounting(st, nameBytes, d) ==
  IF ~d.ok THEN st
  ELSE IF st.numClasses # 0
  THEN IF \/ d.width # st.width
          \/ d.height # st.height
          \/ d.bitsPerPixel # st.bitsPerPixel
          \/ d.bitsPerPixel % 8 # 0
       THEN st
       ELSE [st EXCEPT !.file = WriteAt(st.file \o nameBytes,
                                        NumClassesFieldOffset,
                                        LE(st.numClasses + 1, 8)),
                       !.numClasses = st.numClasses + 1]
  ELSE [file |-> st.file \o LE(d.width, 4) \o LE(d.height, 4)
                   \o LE(d.bitsPerPixel, 2) \o LE(1, 8) \o nameBytes,
        width |-> d.width, height |-> d.height,
        bitsPerPixel |-> d.bitsPerPixel, numClasses |-> 1]

\* A directory of dimensions d: skipped, or accepted as a class and its
\* name written (the first one accepted also writes the dimensions and the
\* placeholder of numClasses).
AcceptDir(st, nameBytes, d) ==
  IF ~d.ok THEN st
  ELSE IF st.numClasses # 0
  THEN IF \/ d.width # st.width
          \/ d.height # st.height
          \/ d.bitsPerPixel # st.bitsPerPixel
          \/ d.bitsPerPixel % 8 # 0
       THEN st
       ELSE [st EXCEPT !.file = st.file \o nameBytes,
                       !.numClasses = st.numClasses + 1]
  ELSE [file |-> st.file \o LE(d.width, 4) \o LE(d.height, 4)
                   \o LE(d.bitsPerPixel, 2) \o LE(0, 8) \o nameBytes,
        width |-> d.width, height |-> d.height,
        bitsPerPixel |-> d.bitsPerPixel, numClasses |-> 1]

\* One first-level directory entry: accepted as a class or skipped.
InitDirStep(st, name, files) ==
  AcceptDir(st, <<Len(name)>> \o name, allFilesSameDims(files))

RECURSIVE InitDirLoop(_, _, _)
InitDirLoop(st, listing, i) ==
  IF i > Len(listing) THEN st
  ELSE InitDirLoop(InitDirStep(st, ClassName(i), Populations[listing[i]]),
                   listing, i + 1)

\* listing: the population of each first-level directory, in readdir order.
\* The output is opened "wb": whatever the path held is discarded.
\* A faulty variant of WriteVectors: one class taken for enough.
WriteVectorsOneClass(st) ==
  IF st.numClasses < 1 THEN [ok |-> FALSE, file |-> st.file]
  ELSE [ok |-> TRUE,
        file |-> WriteAt(st.file
                           \o Zeros(NumInitialVectors(st.numClasses)
                                      * (st.width * Abs(st.height))
                                      * (st.bitsPerPixel \div 8) * SizeofDouble),
                         NumClassesFieldOffset, LE(st.numClasses, 8))]

\* After the directories: the zero vectors, then the class count.
WriteVectors(st) ==
  IF st.numClasses < 2 THEN [ok |-> FALSE, file |-> st.file]
  ELSE [ok |-> TRUE,
        file |-> WriteAt(st.file
                           \o Zeros(NumInitialVectors(st.numClasses)
                                      * (st.width * Abs(st.height))
                                      * (st.bitsPerPixel \div 8) * SizeofDouble),
                         NumClassesFieldOffset, LE(st.numClasses, 8))]

\* Everything initializeOutputFile writes before it goes back to the class
\* count: the header, the names and the zero vectors, in this order.
WrittenBeforeCount(st) ==
  IF st.numClasses < 2 THEN st.file
  ELSE st.file \o Zeros(NumInitialVectors(st.numClasses)
                          * (st.width * Abs(st.height))
                          * (st.bitsPerPixel \div 8) * SizeofDouble)

initializeOutputFile(listing) ==
  WriteVectors(InitDirLoop([file |-> SvmMagicNumber \o <<SizeofDouble>>,
                            width |-> 0, height |-> 0, bitsPerPixel |-> 0,
                            numClasses |-> 0], listing, 1))

\* --------------------------------------------------- getClassNamesFromFile
RECURSIVE ReadNamesLoop(_, _, _, _)
ReadNamesLoop(file, pos, left, names) ==
  IF left = 0 THEN [ok |-> TRUE, names |-> names, pos |-> pos]
  ELSE IF ~CanRead(file, pos, 1)
  THEN [ok |-> FALSE, names |-> names, pos |-> pos]
  ELSE IF ~CanRead(file, pos + 1, file[pos + 1])
  THEN [ok |-> FALSE, names |-> names, pos |-> pos]
  ELSE ReadNamesLoop(file, pos + 1 + file[pos + 1], left - 1,
                     Append(names, Slice(file, pos + 1, file[pos + 1])))

\* what getClassNamesFromFile hands back: *classCount and *classNames
NamesRead(classCount, r) ==
  [ok |-> r.ok, classCount |-> classCount, names |-> r.names]

getClassNamesFromFile(file) ==
  IF ~CanRead(file, NumClassesFieldOffset, 8)
  THEN [ok |-> FALSE, classCount |-> 0, names |-> <<>>]
  ELSE NamesRead(DecodeU(Slice(file, NumClassesFieldOffset, 8)),
                 ReadNamesLoop(file, NumClassesFieldOffset + 8,
                               DecodeU(Slice(file, NumClassesFieldOffset, 8)),
                               <<>>))

\* ---------------------------------------------------------- getNormDivisor
\* The sum of the squares of the first `width` bytes of each stored row.
RECURSIVE SumSquaresLoop(_, _, _, _, _, _)
SumSquaresLoop(sample, width, rowsLeft, colNum, pos, sum) ==
  IF rowsLeft = 0 THEN sum
  ELSE IF colNum = width
  THEN SumSquaresLoop(sample, width, rowsLeft - 1, 0,
                      pos + RowPadding(width), sum)
  ELSE IF ~CanRead(sample, pos, 1) THEN -1
  ELSE SumSquaresLoop(sample, width, rowsLeft, colNum + 1, pos + 1,
                      sum + sample[pos + 1] * sample[pos + 1])

\* return -1.0 on an error, else sqrt(sumSquares)
NormOfSum(ok, sum) == IF ~ok \/ sum < 0 THEN FromInt(-1) ELSE SqrtOfInt(sum)

\* the sample's dimensions d read, its bytes are summed from the pixel data on
NormFromDims(sample, d) ==
  NormOfSum(d.ok, SumSquaresLoop(sample, d.width, Abs(d.height), 0,
                                 DecodeU(Slice(sample, 10, 4)), 0))

getNormDivisor(sample) == NormFromDims(sample, getBmpDims(sample))

\* ----------------------------------------------------- trainVectorWithSample
\* -(x) computed in unsigned int and passed to fseek as a long: on LP64 the
\* offset is the positive number 2^32 - x (here 2^WordBits - x).
NegatedUnsigned(x) == (WordModulus - (x % WordModulus)) % WordModulus

\* fseek to the top-left pixel, as trainVectorWithSample and
\* tryGetDotProduct both do it
SeekTopLeft(sample, c) ==
  IF c.height > 0
  THEN Len(sample) + NegatedUnsigned(c.width + c.rowPadding)
  ELSE c.offsetToSampleData

\* the seek at the end of a row of the sample in trainVectorWithSample
TrainNextRow(c, rowNum, samplePos) ==
  IF c.height > 0
  THEN IF rowNum # c.numRows - 1
       THEN samplePos + NegatedUnsigned(2 * c.width + c.rowPadding)
       ELSE samplePos
  ELSE samplePos + c.rowPadding

\* dotProduct += currentVectorDim * byteValue / normDivisor
DotTerm(vectorDim, byteValue, normDivisor) ==
  FDiv(vectorDim * byteValue, normDivisor)

\* The first pass: the vector and the sample in lock-step.
RECURSIVE TrainDotLoop(_, _, _, _, _, _, _, _)
TrainDotLoop(file, sample, c, rowNum, inRow, outPos, samplePos, dot) ==
  IF rowNum = c.numRows
  THEN [ok |-> TRUE, dotProduct |-> dot, outPos |-> outPos]
  ELSE IF inRow = c.width * c.bytesPerPixel
  THEN TrainDotLoop(file, sample, c, rowNum + 1, 0, outPos,
                    TrainNextRow(c, rowNum, samplePos), dot)
  ELSE IF ~CanRead(file, outPos, SizeofDouble) \/ ~CanRead(sample, samplePos, 1)
  THEN [ok |-> FALSE, dotProduct |-> dot, outPos |-> outPos]
  ELSE TrainDotLoop(file, sample, c, rowNum, inRow + 1,
                    outPos + SizeofDouble, samplePos + 1,
                    dot + DotTerm(DecodeDouble(Slice(file, outPos, SizeofDouble)),
                                  sample[samplePos + 1], c.normDivisor))

\* A faulty variant of Redirect: the sample term without the sign of the role.
RedirectUnsigned(vectorDim, byteValue, c) ==
  vectorDim
    - FMul(c.learnRate,
           FMul(Lambda, vectorDim) - FDiv(FromInt(byteValue), c.normDivisor))

\* vectorDim -= learnRate * ((LAMBDA * vectorDim) - (+/-)(byteValue / normDivisor))
Redirect(vectorDim, byteValue, c) ==
  vectorDim
    - FMul(c.learnRate,
           FMul(Lambda, vectorDim)
             - (IF c.isPositiveSample
                THEN FDiv(FromInt(byteValue), c.normDivisor)
                ELSE -FDiv(FromInt(byteValue), c.normDivisor)))

\* vectorDim -= learnRate * LAMBDA * vectorDim
Shrink(vectorDim, c) == vectorDim - FMul(FMul(c.learnRate, Lambda), vectorDim)

\* The second pass when dotProduct < 1.0: read a component, read a byte,
\* seek back, overwrite.  (A read directly after a write on the same stream:
\* glibc switches the stream's mode and reads the next component.)
RECURSIVE RedirectLoop(_, _, _, _, _, _, _)
RedirectLoop(file, sample, c, rowNum, inRow, outPos, samplePos) ==
  IF rowNum = c.numRows THEN [ok |-> TRUE, file |-> file]
  ELSE IF inRow = c.width * c.bytesPerPixel
  THEN RedirectLoop(file, sample, c, rowNum + 1, 0, outPos,
                    TrainNextRow(c, rowNum, samplePos))
  ELSE IF ~CanRead(file, outPos, SizeofDouble) \/ ~CanRead(sample, samplePos, 1)
  THEN [ok |-> FALSE, file |-> file]
  ELSE RedirectLoop(
         WriteAt(file, outPos,
                 EncodeDouble(Redirect(DecodeDouble(Slice(file, outPos, SizeofDouble)),
                                       sample[samplePos + 1], c))),
         sample, c, rowNum, inRow + 1, outPos + SizeofDouble, samplePos + 1)

\* A faulty variant of RedirectSome: the component is written without the
\* seek back over the component just read.
RECURSIVE RedirectSomeNoSeekBack(_, _, _, _, _, _, _, _)
RedirectSomeNoSeekBack(file, sample, c, rowNum, inRow, outPos, samplePos, left) ==
  IF left = 0 \/ rowNum = c.numRows THEN [ok |-> TRUE, file |-> file]
  ELSE IF inRow = c.width * c.bytesPerPixel
  THEN RedirectSomeNoSeekBack(file, sample, c, rowNum + 1, 0, outPos,
                              TrainNextRow(c, rowNum, samplePos), left)
  ELSE IF ~CanRead(file, outPos, SizeofDouble) \/ ~CanRead(sample, samplePos, 1)
  THEN [ok |-> FALSE, file |-> file]
  ELSE RedirectSomeNoSeekBack(
         WriteAt(file, outPos + SizeofDouble,
                 EncodeDouble(Redirect(DecodeDouble(Slice(file, outPos, SizeofDouble)),
                                       sample[samplePos + 1], c))),
         sample, c, rowNum, inRow + 1, outPos + SizeofDouble, samplePos + 1,
         left - 1)

\* The redirect pass as far as its first `left` writes: the file as the
\* pass leaves it when it is stopped there.
RECURSIVE RedirectSome(_, _, _, _, _, _, _, _)
RedirectSome(file, sample, c, rowNum, inRow, outPos, samplePos, left) ==
  IF left = 0 \/ rowNum = c.numRows THEN [ok |-> TRUE, file |-> file]
  ELSE IF inRow = c.width * c.bytesPerPixel
  THEN RedirectSome(file, sample, c, rowNum + 1, 0, outPos,
                    TrainNextRow(c, rowNum, samplePos), left)
  ELSE IF ~CanRead(file, outPos, SizeofDouble) \/ ~CanRead(sample, samplePos, 1)
  THEN [ok |-> FALSE, file |-> file]
  ELSE RedirectSome(
         WriteAt(file, outPos,
                 EncodeDouble(Redirect(DecodeDouble(Slice(file, outPos, SizeofDouble)),
                                       sample[samplePos + 1], c))),
         sample, c, rowNum, inRow + 1, outPos + SizeofDouble, samplePos + 1,
         left - 1)

\* The second pass otherwise: the sample is not read.
RECURSIVE ShrinkLoop(_, _, _, _)
ShrinkLoop(file, c, left, outPos) ==
  IF left = 0 THEN [ok |-> TRUE, file |-> file]
  ELSE IF ~CanRead(file, outPos, SizeofDouble) THEN [ok |-> FALSE, file |-> file]
  ELSE ShrinkLoop(
         WriteAt(file, outPos,
                 EncodeDouble(Shrink(DecodeDouble(Slice(file, outPos, SizeofDouble)), c))),
         c, left - 1, outPos + SizeofDouble)

\* A faulty variant of VectorStart: the channels of a pixel forgotten.
VectorStartNoChannels(offsetToVectors, offsetVectors, numPixels, bytesPerPixel) ==
  offsetToVectors + offsetVectors * numPixels * SizeofDouble

\* A faulty variant of VectorStart: one vector too far.
VectorStartNext(offsetToVectors, offsetVectors, numPixels, bytesPerPixel) ==
  offsetToVectors + (offsetVectors + 1) * numPixels * bytesPerPixel * SizeofDouble

\* The position of the vector's first component: offsetVectors vectors of
\* numPixels * bytesPerPixel seeks of sizeof(double) past offsetToVectors.
VectorStart(offsetToVectors, offsetVectors, numPixels, bytesPerPixel) ==
  offsetToVectors + offsetVectors * numPixels * bytesPerPixel * SizeofDouble

\* A faulty variant of SignedDot: the role forgotten.
SignedDotUnsigned(dotProduct, isPositiveSample) == dotProduct

\* if(!isPositiveSample) dotProduct = -dotProduct
SignedDot(dotProduct, isPositiveSample) ==
  IF isPositiveSample THEN dotProduct ELSE -dotProduct

\* if(dotProduct < 1.0), after the sign of a negative sample was applied
TakesRedirect(signedDot) == signedDot < FromInt(1)

\* What trainVectorWithSample works with: the sample's dimensions d as
\* getBmpDims gave them, and its own arguments.
TrainContext(sample, d, offsetVectors, offsetToVectors, normDivisor, learnRate, isPositiveSample) ==
  [ok |-> d.ok /\ d.bitsPerPixel % 8 = 0,
   width |-> d.width, height |-> d.height,
   bytesPerPixel |-> d.bitsPerPixel \div 8,
   numRows |-> Abs(d.height),
   rowPadding |-> RowPadding(d.width),
   offsetToSampleData |-> DecodeU(Slice(sample, 10, 4)),
   start |-> VectorStart(offsetToVectors, offsetVectors,
                         d.width * Abs(d.height), d.bitsPerPixel \div 8),
   normDivisor |-> normDivisor, learnRate |-> learnRate,
   isPositiveSample |-> isPositiveSample]

TrainFailed(file) ==
  [ok |-> FALSE, file |-> file, dotProduct |-> 0, redirect |-> FALSE]

\* the result of the second pass, with what the first one found
TrainDone(pass2, signedDot) ==
  [ok |-> pass2.ok, file |-> pass2.file, dotProduct |-> signedDot,
   redirect |-> TakesRedirect(signedDot)]

\* "Redirect vector if less than 1", else "Shrink vector"
SecondPass(file, sample, c, signedDot) ==
  TrainDone(IF TakesRedirect(signedDot)
            THEN RedirectLoop(file, sample, c, 0, 0, c.start,
                              SeekTopLeft(sample, c))
            ELSE ShrinkLoop(file, c, c.width * c.numRows * c.bytesPerPixel,
                            c.start),
            signedDot)

\* after the first pass: a failed read returns false, nothing written
AfterDotPass(file, sample, c, pass1) ==
  IF ~pass1.ok THEN TrainFailed(file)
  ELSE SecondPass(file, sample, c, SignedDot(pass1.dotProduct, c.isPositiveSample))

TrainInContext(file, sample, c) ==
  IF ~c.ok THEN TrainFailed(file)
  ELSE AfterDotPass(file, sample, c,
                    TrainDotLoop(file, sample, c, 0, 0, c.start,
                                 SeekTopLeft(sample, c), 0))

\* trainVectorWithSample stopped after `written` writes of its second pass
\* (the process interrupted): the file as it is then, and what the first
\* pass had found.
StoppedSecondPass(file, sample, c, signedDot, written) ==
  [file |-> IF TakesRedirect(signedDot)
            THEN RedirectSome(file, sample, c, 0, 0, c.start,
                              SeekTopLeft(sample, c), written).file
            ELSE ShrinkLoop(file, c, written, c.start).file,
   written |-> written, dotProduct |-> signedDot,
   redirect |-> TakesRedirect(signedDot)]

StoppedAfterDotPass(file, sample, c, pass1, written) ==
  IF ~c.ok \/ ~pass1.ok
  THEN [file |-> file, written |-> 0, dotProduct |-> 0, redirect |-> FALSE]
  ELSE StoppedSecondPass(file, sample, c,
                         SignedDot(pass1.dotProduct, c.isPositiveSample),
                         written)

StoppedInContext(file, sample, c, written) ==
  StoppedAfterDotPass(file, sample, c,
                      TrainDotLoop(file, sample, c, 0, 0, c.start,
                                   SeekTopLeft(sample, c), 0),
                      written)

trainVectorWithSample(file, sample, offsetVectors, offsetToVectors, normDivisor, learnRate, isPositiveSample) ==
  TrainInContext(file, sample,
                 TrainContext(sample, getBmpDims(sample), offsetVectors,
                              offsetToVectors, normDivisor, learnRate,
                              isPositiveSample))

\* ---------------------------------------------------- trainVectorsWithSample
\* uintmax_t arithmetic
Wrap(x) == x % OffsetModulus

\* The 0-based positions at which two files differ.
ChangedBytes(before, after) ==
  {p \in 0..(Min(Len(before), Len(after)) - 1) : before[p + 1] # after[p + 1]}

\* The call that returned r, appended to the log of the calls made:
\* st is [ok, file, calls, offsetVectors].
Called(st, isPositiveSample, r) ==
  [st EXCEPT
     !.ok = r.ok,
     !.file = r.file,
     !.calls = Append(@, [offsetVectors |-> st.offsetVectors,
                          isPositiveSample |-> isPositiveSample,
                          ok |-> r.ok,
                          dotProduct |-> r.dotProduct,
                          redirect |-> r.redirect,
                          changed |-> ChangedBytes(st.file, r.file),
                          lenBefore |-> Len(st.file),
                          lenAfter |-> Len(r.file)])]

\* A faulty variant of CallTrain: the role handed to trainVectorWithSample
\* is the opposite one.
CallTrainInverted(st, a, isPositiveSample) ==
  Called(st, ~isPositiveSample,
         trainVectorWithSample(st.file, a.sample, st.offsetVectors,
                               a.offsetToVectors, a.normDivisor,
                               a.learnRate, ~isPositiveSample))

\* One call of trainVectorWithSample from trainVectorsWithSample.
CallTrain(st, a, isPositiveSample) ==
  Called(st, isPositiveSample,
         trainVectorWithSample(st.file, a.sample, st.offsetVectors,
                               a.offsetToVectors, a.normDivisor,
                               a.learnRate, isPositiveSample))

\* "Train the rest of the negative vectors"
RECURSIVE NegativeLoop(_, _, _)
NegativeLoop(st, a, iterNum) ==
  IF ~st.ok \/ iterNum >= a.classNum THEN st
  ELSE IF st.offsetVectors > Wrap(st.offsetVectors + a.numClasses - 1 - iterNum)
  THEN [st EXCEPT !.ok = FALSE]
  ELSE NegativeLoop(
         CallTrain([st EXCEPT !.offsetVectors =
                                Wrap(@ + a.numClasses - 1 - iterNum)],
                   a, FALSE),
         a, iterNum + 1)

\* "Find offset to first positive vector"
FirstPositive(st, a) ==
  IF ~st.ok \/ a.classNum = 0 THEN st
  ELSE IF st.offsetVectors > Wrap(st.offsetVectors + (a.numClasses - a.classNum))
  THEN [st EXCEPT !.ok = FALSE]
  ELSE [st EXCEPT !.offsetVectors = Wrap(@ + (a.numClasses - a.classNum))]

\* offsetVectors++ after a call that succeeded
NextVector(st) ==
  IF st.ok THEN [st EXCEPT !.offsetVectors = Wrap(@ + 1)] ELSE st

\* A faulty variant of PositiveLoop: it goes on after a call that failed.
RECURSIVE PositiveLoopNoStop(_, _, _)
PositiveLoopNoStop(st, a, posVectorNum) ==
  IF posVectorNum >= Wrap(a.numClasses - 1 - a.classNum) THEN st
  ELSE PositiveLoopNoStop(
         [CallTrain(st, a, TRUE) EXCEPT !.offsetVectors = Wrap(@ + 1)],
         a, posVectorNum + 1)

\* "Train positive vectors"
RECURSIVE PositiveLoop(_, _, _)
PositiveLoop(st, a, posVectorNum) ==
  IF ~st.ok \/ posVectorNum >= Wrap(a.numClasses - 1 - a.classNum) THEN st
  ELSE PositiveLoop(NextVector(CallTrain(st, a, TRUE)), a, posVectorNum + 1)

\* A faulty variant of FirstNegative: the offset is set and the vector is
\* not trained.
FirstNegativeNotTrained(st, a) ==
  IF a.classNum = 0 THEN st
  ELSE [st EXCEPT !.offsetVectors = a.classNum - 1]

\* "Point offset to first negative vector and train"
FirstNegative(st, a) ==
  IF a.classNum = 0 THEN st
  ELSE CallTrain([st EXCEPT !.offsetVectors = a.classNum - 1], a, FALSE)

\* what trainVectorsWithSample returns, with the calls it made
Trained(st, normDivisor) ==
  [ok |-> st.ok, file |-> st.file, calls |-> st.calls,
   normDivisor |-> normDivisor]

\* A faulty variant of TrainVectors: a zero norm divisor taken for an error.
TrainVectorsZeroIsError(file, a) ==
  IF a.normDivisor <= 0
  THEN [ok |-> FALSE, file |-> file, calls |-> <<>>,
        normDivisor |-> a.normDivisor]
  ELSE Trained(
         PositiveLoop(
           FirstPositive(
             NegativeLoop(
               FirstNegative([ok |-> TRUE, file |-> file, calls |-> <<>>,
                              offsetVectors |-> 0], a),
               a, 1),
             a),
           a, 0),
         a.normDivisor)

\* trainVectorsWithSample once the norm divisor is known: a is its
\* arguments and the norm divisor
TrainVectors(file, a) ==
  IF a.normDivisor <= 0
  THEN [ok |-> ~(a.normDivisor < 0), file |-> file, calls |-> <<>>,
        normDivisor |-> a.normDivisor]
  ELSE Trained(
         PositiveLoop(
           FirstPositive(
             NegativeLoop(
               FirstNegative([ok |-> TRUE, file |-> file, calls |-> <<>>,
                              offsetVectors |-> 0], a),
               a, 1),
             a),
           a, 0),
         a.normDivisor)

trainVectorsWithSample(file, sample, offsetToVectors, classNum, numClasses, learnRate) ==
  TrainVectors(file,
               [sample |-> sample, offsetToVectors |-> offsetToVectors,
                classNum |-> classNum, numClasses |-> numClasses,
                learnRate |-> learnRate,
                normDivisor |-> getNormDivisor(sample)])

\* ------------------------------------------------------ classifyFileFromSvm
\* the seek at the end of a row of the sample in tryGetDotProduct
ClassifyNextRow(c, rowNum, samplePos) ==
  IF rowNum = c.numRows - 1 THEN samplePos
  ELSE IF c.height > 0 THEN samplePos - 2 * c.width - c.rowPadding
  ELSE samplePos + c.rowPadding

RECURSIVE ClassifyDotLoop(_, _, _, _, _, _, _, _)
ClassifyDotLoop(svm, sample, c, rowNum, inRow, svmPos, samplePos, dot) ==
  IF rowNum = c.numRows
  THEN [ok |-> TRUE, dotProduct |-> dot, svmPos |-> svmPos]
  ELSE IF inRow = c.width * c.bytesPerPixel
  THEN ClassifyDotLoop(svm, sample, c, rowNum + 1, 0, svmPos,
                       ClassifyNextRow(c, rowNum, samplePos), dot)
  ELSE IF ~CanRead(svm, svmPos, SizeofDouble) \/ ~CanRead(sample, samplePos, 1)
  THEN [ok |-> FALSE, dotProduct |-> dot, svmPos |-> svmPos]
  ELSE ClassifyDotLoop(svm, sample, c, rowNum, inRow + 1,
                       svmPos + SizeofDouble, samplePos + 1,
                       dot + DotTerm(DecodeDouble(Slice(svm, svmPos, SizeofDouble)),
                                     sample[samplePos + 1], c.normDivisor))

\* The dot product of the vector at the store's read position with the
\* sample; a zero norm divisor gives 0.0 and reads nothing.
tryGetDotProduct(svm, svmPos, sample, c) ==
  IF c.normDivisor = 0
  THEN [ok |-> TRUE, dotProduct |-> 0, svmPos |-> svmPos]
  ELSE ClassifyDotLoop(svm, sample, c, 0, 0, svmPos, SeekTopLeft(sample, c), 0)

\* Faulty variants of VoteFor: the two classes exchanged; a dot product of
\* 0.0 counted for posClass; the else branch lost.
VoteForSwapped(dotProduct, posClass, negClass) ==
  IF dotProduct > 0 THEN negClass ELSE posClass

VoteForNonNegative(dotProduct, posClass, negClass) ==
  IF dotProduct >= 0 THEN posClass ELSE negClass

VoteForFirst(dotProduct, posClass, negClass) == posClass

\* if(dotProduct > 0.0) vectorsInFavor[posClass]++; else vectorsInFavor[negClass]++;
\* classes are numbered from 0
VoteFor(dotProduct, posClass, negClass) ==
  IF dotProduct > 0 THEN posClass ELSE negClass

\* A faulty variant of CountVote: the store's read position is put back
\* where it was before the vector was read.
CountVoteRewound(v, r, posClass, negClass) ==
  IF ~r.ok THEN [v EXCEPT !.ok = FALSE]
  ELSE [v EXCEPT
          !.votes[VoteFor(r.dotProduct, posClass, negClass) + 1] = @ + 1,
          !.dots = Append(@, r.dotProduct),
          !.picks = Append(@, <<posClass, negClass,
                                VoteFor(r.dotProduct, posClass, negClass)>>)]

\* A faulty variant of CountVote: the vote is counted for both classes of
\* the pair.
CountVoteForBoth(v, r, posClass, negClass) ==
  IF ~r.ok THEN [v EXCEPT !.ok = FALSE]
  ELSE [v EXCEPT
          !.svmPos = r.svmPos,
          !.votes = [k \in 1..Len(v.votes) |->
                       IF k = posClass + 1 \/ k = negClass + 1
                       THEN v.votes[k] + 1 ELSE v.votes[k]],
          !.dots = Append(@, r.dotProduct),
          !.picks = Append(@, <<posClass, negClass,
                                VoteFor(r.dotProduct, posClass, negClass)>>)]

\* The vote of one pair, r being what tryGetDotProduct returned:
\* v is [ok, svmPos, votes, dots, picks], votes[k + 1] is vectorsInFavor[k].
CountVote(v, r, posClass, negClass) ==
  IF ~r.ok THEN [v EXCEPT !.ok = FALSE]
  ELSE [v EXCEPT
          !.svmPos = r.svmPos,
          !.votes[VoteFor(r.dotProduct, posClass, negClass) + 1] = @ + 1,
          !.dots = Append(@, r.dotProduct),
          !.picks = Append(@, <<posClass, negClass,
                                VoteFor(r.dotProduct, posClass, negClass)>>)]

\* The two loops over posClass < negClass.
RECURSIVE VoteLoop(_, _, _, _, _, _)
VoteLoop(svm, sample, c, v, posClass, negClass) ==
  IF ~v.ok \/ posClass >= c.numClasses - 1 THEN v
  ELSE IF negClass >= c.numClasses
  THEN VoteLoop(svm, sample, c, v, posClass + 1, posClass + 2)
  ELSE VoteLoop(svm, sample, c,
                CountVote(v, tryGetDotProduct(svm, v.svmPos, sample, c),
                          posClass, negClass),
                posClass, negClass + 1)

\* A faulty variant of FavoriteLoop: a class that ties with the favorite
\* replaces it.
RECURSIVE FavoriteLoopLastWins(_, _, _)
FavoriteLoopLastWins(votes, t, classNum) ==
  IF classNum >= Len(votes) THEN t
  ELSE IF votes[classNum + 1] >= t.numVectorsFavor
  THEN FavoriteLoopLastWins(votes,
                            [numClassesFavorite |-> 1,
                             numVectorsFavor |-> votes[classNum + 1],
                             favoriteClasses |->
                               [t.favoriteClasses EXCEPT ![1] = classNum]],
                            classNum + 1)
  ELSE FavoriteLoopLastWins(votes, t, classNum + 1)

\* "Find out and display results": t is [numClassesFavorite,
\* numVectorsFavor, favoriteClasses]; favoriteClasses is malloc'ed and not
\* initialised: -1 stands for a slot never written.
RECURSIVE FavoriteLoop(_, _, _)
FavoriteLoop(votes, t, classNum) ==
  IF classNum >= Len(votes) THEN t
  ELSE IF votes[classNum + 1] > t.numVectorsFavor
  THEN FavoriteLoop(votes,
                    [numClassesFavorite |-> 1,
                     numVectorsFavor |-> votes[classNum + 1],
                     favoriteClasses |-> [t.favoriteClasses EXCEPT ![1] = classNum]],
                    classNum + 1)
  ELSE IF votes[classNum + 1] = t.numVectorsFavor
  THEN FavoriteLoop(votes,
                    [t EXCEPT !.favoriteClasses[t.numClassesFavorite + 1] = classNum,
                              !.numClassesFavorite = @ + 1],
                    classNum + 1)
  ELSE FavoriteLoop(votes, t, classNum + 1)

\* totalVectorsFavor = numClassesFavorite * numVectorsFavor
TotalVectorsFavor(numClassesFavorite, numVectorsFavor) ==
  numClassesFavorite * numVectorsFavor

\* A faulty variant of TotalVectorsRelevant: the number of favorites forgotten.
TotalVectorsRelevantOnce(numClassesFavorite, numClasses) == numClasses - 1

\* totalVectorsRelevant = numClassesFavorite * (numClasses - 1)
TotalVectorsRelevant(numClassesFavorite, numClasses) ==
  numClassesFavorite * (numClasses - 1)

\* (double)totalVectorsFavor / totalVectorsRelevant * 100
Percent(totalVectorsFavor, totalVectorsRelevant) ==
  RoundDiv(totalVectorsFavor * Scale, totalVectorsRelevant) * 100

\* What is printed: the percentage, the two counts and the classes listed.
Printed(totalVectorsFavor, totalVectorsRelevant, t) ==
  [percent |-> Percent(totalVectorsFavor, totalVectorsRelevant),
   totalVectorsFavor |-> totalVectorsFavor,
   totalVectorsRelevant |-> totalVectorsRelevant,
   numVectorsFavor |-> t.numVectorsFavor,
   classes |-> SubSeq(t.favoriteClasses, 1, t.numClassesFavorite)]

\* the two totals of the winners t found by the loop over the classes
Totals(numClasses, t) ==
  Printed(TotalVectorsFavor(t.numClassesFavorite, t.numVectorsFavor),
          TotalVectorsRelevant(t.numClassesFavorite, numClasses), t)

Report(votes) ==
  Totals(Len(votes),
        FavoriteLoop(votes,
                     [numClassesFavorite |-> 0,
                      numVectorsFavor |-> votes[1],
                      favoriteClasses |-> [k \in 1..Len(votes) |-> -1]],
                     0))

NoReport ==
  [percent |-> 0, totalVectorsFavor |-> 0, totalVectorsRelevant |-> 0,
   numVectorsFavor |-> 0, classes |-> <<>>]

Failed(normDivisor) ==
  [ok |-> FALSE, numClasses |-> 0, normDivisor |-> normDivisor,
   votes |-> <<>>, dots |-> <<>>, picks |-> <<>>, report |-> NoReport]

\* The position after the class table, reading each run length and
\* seeking past each name; -1 when a run length cannot be read.
RECURSIVE SkipNamesLoop(_, _, _)
SkipNamesLoop(svm, pos, left) ==
  IF left = 0 THEN pos
  ELSE IF ~CanRead(svm, pos, 1) THEN -1
  ELSE SkipNamesLoop(svm, pos + 1 + svm[pos + 1], left - 1)

\* What tryGetDotProduct works with: the sample's dimensions d and
\* classifyFileFromSvm's normDivisor and numClasses.
ClassifyContext(sample, d, normDivisor, numClasses) ==
  [width |-> d.width, height |-> d.height,
   bytesPerPixel |-> d.bitsPerPixel \div 8,
   numRows |-> Abs(d.height),
   rowPadding |-> RowPadding(d.width),
   offsetToSampleData |-> DecodeU(Slice(sample, 10, 4)),
   normDivisor |-> normDivisor, numClasses |-> numClasses]

\* the votes counted (or a read that failed): what is returned and printed
Verdict(numClasses, normDivisor, v) ==
  IF ~v.ok THEN Failed(normDivisor)
  ELSE [ok |-> TRUE, numClasses |-> numClasses, normDivisor |-> normDivisor,
        votes |-> v.votes, dots |-> v.dots, picks |-> v.picks,
        report |-> Report(v.votes)]

\* from "Get normDivisor" on: the vote loops over the vectors at firstVector
VoteOnSample(sample, svm, d, numClasses, firstVector, normDivisor) ==
  IF firstVector < 0 THEN Failed(0)
  ELSE IF normDivisor < 0 THEN Failed(normDivisor)
  ELSE Verdict(numClasses, normDivisor,
               VoteLoop(svm, sample,
                        ClassifyContext(sample, d, normDivisor, numClasses),
                        [ok |-> TRUE, svmPos |-> firstVector,
                         votes |-> [k \in 1..numClasses |-> 0],
                         dots |-> <<>>, picks |-> <<>>],
                        0, 1))

\* A faulty variant of HeaderMatches: the heights are not compared.
HeaderMatchesAnyHeight(svm, d) ==
  /\ CanRead(svm, 0, NumClassesFieldOffset)
  /\ Slice(svm, 0, 4) = SvmMagicNumber
  /\ svm[5] = SizeofDouble
  /\ DecodeU(Slice(svm, 5, 4)) = d.width
  /\ DecodeU(Slice(svm, 13, 2)) = d.bitsPerPixel

\* the checks of the store's header against the sample's dimensions d
HeaderMatches(svm, d) ==
  /\ CanRead(svm, 0, NumClassesFieldOffset)
  /\ Slice(svm, 0, 4) = SvmMagicNumber
  /\ svm[5] = SizeofDouble
  /\ DecodeU(Slice(svm, 5, 4)) = d.width
  /\ Abs(Decode(Slice(svm, 9, 4))) = Abs(d.height)
  /\ DecodeU(Slice(svm, 13, 2)) = d.bitsPerPixel

ClassifyChecked(sample, svm, d, names) ==
  IF \/ ~hasBmpMagicNumber(sample)
     \/ ~d.ok
     \/ ~HeaderMatches(svm, d)
     \/ ~names.ok
     \/ names.classCount < 2
  THEN Failed(0)
  ELSE VoteOnSample(sample, svm, d, names.classCount,
                    SkipNamesLoop(svm, NumClassesFieldOffset + 8,
                                  names.classCount),
                    getNormDivisor(sample))

classifyFileFromSvm(sample, svm) ==
  ClassifyChecked(sample, svm, getBmpDims(sample), getClassNamesFromFile(svm))

\* ------------------------------------------------------------ the program
VARIABLES
  dirs,            \* the input directory: the population of each first-level directory
  svm,             \* the bytes of the store file (<<>>: no file yet)
  pc,              \* "start", "train" (in createSvmFromDir's loops), "done", "failed"
  stepNum,         \* createSvmFromDir's stepNum
  classNum,        \* createSvmFromDir's classNum
  classNames,      \* createSvmFromDir's classNames
  offsetToVectors, \* createSvmFromDir's offsetToVectors
  initial,         \* what initializeOutputFile returned and the file as it left it
  prev,            \* the file before the last trainVectorsWithSample
  last,            \* the last trainVectorsWithSample: its arguments, result and calls
  result,          \* what the last classifyFileFromSvm returned and printed
  log              \* the trainVectorsWithSample made so far in the current step

vars == <<dirs, svm, pc, stepNum, classNum, classNames, offsetToVectors,
          initial, prev, last, result, log>>

NotInitialized == [ran |-> FALSE, ok |-> FALSE, file |-> <<>>]

NoTraining ==
  [ran |-> FALSE, ok |-> FALSE, classNum |-> 0, numClasses |-> 0,
   normDivisor |-> 0, height |-> 0, sample |-> <<>>, calls |-> <<>>]

NoResult == [ran |-> FALSE, query |-> 0, out |-> Failed(0)]

Listings == UNION {[1..n -> 1..Len(Populations)] : n \in 1..MaxClasses}

Init ==
  /\ dirs \in Listings
  /\ svm = <<>>
  /\ pc = "start"
  /\ stepNum = 0
  /\ classNum = 0
  /\ classNames = <<>>
  /\ offsetToVectors = 0
  /\ initial = NotInitialized
  /\ prev = <<>>
  /\ last = NoTraining
  /\ result = NoResult
  /\ log = <<>>

\* The directory createSvmFromDir rebuilds from a class name read back from
\* the file.
DirOfClass(listing, name) ==
  Populations[listing[CHOOSE i \in 1..Len(listing) : ClassName(i) = name]]

\* getNumSamples: the regular files with the BMP magic number
getNumSamples(files) ==
  Cardinality({k \in 1..Len(files) : hasBmpMagicNumber(files[k])})

RECURSIVE SumNameLengths(_)
SumNameLengths(names) ==
  IF names = <<>> THEN 0 ELSE Len(Head(names)) + SumNameLengths(Tail(names))

\* A faulty variant of OffsetToVectors: the run lengths of the names are
\* not counted.
OffsetToVectorsNoRunLengths(names) ==
  4 + 1 + 4 + 4 + 2 + 8 + SumNameLengths(names)

\* createSvmFromDir's offsetToVectors
OffsetToVectors(names) ==
  4 + 1 + 4 + 4 + 2 + 8 + Len(names) + SumNameLengths(names)

\* learnRate = 1.0 / sqrt(stepNum + 1)
LearnRate(step) == FDiv(FromInt(1), SqrtOfInt(step + 1))

\* createSvmFromDir reaches "Commence training": the file was initialized,
\* its class names were read back, every class has a sample
ReadyToTrain(listing, r, names) ==
  /\ r.ok
  /\ names.ok
  /\ \A k \in 1..Len(names.names) :
       getNumSamples(DirOfClass(listing, names.names[k])) # 0

\* createSvmFromDir up to "Commence training"
CreateSvmFromDir ==
  /\ pc = "start"
  /\ \E r \in {initializeOutputFile(dirs)} :
       \E names \in {getClassNamesFromFile(r.file)} :
         \E ready \in {ReadyToTrain(dirs, r, names)} :
           /\ svm' = r.file
           /\ initial' = [ran |-> TRUE, ok |-> r.ok, file |-> r.file]
           /\ pc' = IF ready THEN "train" ELSE "failed"
           /\ classNames' = IF ready THEN names.names ELSE <<>>
           /\ offsetToVectors' = IF ready THEN OffsetToVectors(names.names) ELSE 0
  /\ UNCHANGED <<dirs, stepNum, classNum, prev, last, result, log>>

\* One iteration of createSvmFromDir's loop over the classes: a random
\* sample of the class, trainVectorsWithSample with it.
TrainClass ==
  /\ pc = "train"
  /\ \E sample \in {f \in Range(DirOfClass(dirs, classNames[classNum + 1])) :
                      hasBmpMagicNumber(f)} :
       \E r \in {trainVectorsWithSample(svm, sample, offsetToVectors, classNum,
                                        Len(classNames), LearnRate(stepNum))} :
         \E lastClass \in {classNum + 1 >= Len(classNames)} :
           /\ svm' = r.file
           /\ prev' = svm
           /\ last' = [ran |-> TRUE, ok |-> r.ok, classNum |-> classNum,
                       numClasses |-> Len(classNames),
                       normDivisor |-> r.normDivisor,
                       height |-> getBmpDims(sample).height,
                       sample |-> sample, calls |-> r.calls]
           /\ classNum' = IF r.ok /\ ~lastClass THEN classNum + 1
                          ELSE IF r.ok THEN 0 ELSE classNum
           /\ stepNum' = IF r.ok /\ lastClass THEN stepNum + 1 ELSE stepNum
           /\ pc' = IF ~r.ok THEN "failed"
                    ELSE IF lastClass /\ stepNum + 1 >= MaxSteps THEN "done"
                    ELSE "train"
           /\ log' = Append(IF classNum = 0 THEN <<>> ELSE log,
                            [classNum |-> classNum, ok |-> r.ok,
                             normDivisor |-> r.normDivisor,
                             sample |-> sample, calls |-> r.calls,
                             before |-> svm, after |-> r.file])
  /\ UNCHANGED <<dirs, classNames, offsetToVectors, initial, result>>

\* The program run once on a file and the store, after createSvmFromDir has
\* returned (the store is only read, so one run stands for any number).
Classify ==
  /\ pc \in {"done", "failed"}
  /\ ~result.ran
  /\ \E q \in 1..Len(Queries) :
       result' = [ran |-> TRUE, query |-> q,
                  out |-> classifyFileFromSvm(Queries[q], svm)]
  /\ UNCHANGED <<dirs, svm, pc, stepNum, classNum, classNames,
                 offsetToVectors, initial, prev, last, log>>

Next == CreateSvmFromDir \/ TrainClass \/ Classify

Spec == Init /\ [][Next]_vars

\* ------------------------------------------------------------ the tally alone
\* The part of classifyFileFromSvm from "Find out and display results" on is
\* a function of vectorsInFavor alone: here it is applied to every array of
\* counts, whether a vote loop can produce it or not.
TallyInit ==
  /\ dirs = <<>>
  /\ svm = <<>>
  /\ pc = "tally"
  /\ stepNum = 0
  /\ classNum = 0
  /\ classNames = <<>>
  /\ offsetToVectors = 0
  /\ initial = NotInitialized
  /\ prev = <<>>
  /\ last = NoTraining
  /\ result = NoResult
  /\ log = <<>>

TallyVotes ==
  /\ pc = "tally"
  /\ ~result.ran
  /\ \E n \in 2..(MaxClasses + 1) :
       \E votes \in [1..n -> 0..(n - 1)] :
         result' = [ran |-> TRUE, query |-> 0,
                    out |-> Verdict(n, 0, [ok |-> TRUE, votes |-> votes,
                                           dots |-> <<>>, picks |-> <<>>])]
  /\ UNCHANGED <<dirs, svm, pc, stepNum, classNum, classNames,
                 offsetToVectors, initial, prev, last, log>>

TallySpec == TallyInit /\ [][TallyVotes]_vars

\* ------------------------------------------- trainVectorsWithSample alone
\* trainVectorsWithSample is a function of the store, the sample and its
\* arguments: here it is applied once to the store initializeOutputFile
\* leaves for n classes, for every class, sample and step, with class counts
\* up to one whose vector offsets do not all fit the unsigned type.
MostClasses == 2 ^ (OffsetBits - 1) + 1

VectorsInit ==
  /\ \E n \in 2..MostClasses : dirs = [i \in 1..n |-> 1]
  /\ svm = initializeOutputFile(dirs).file
  /\ pc = "vectors"
  /\ stepNum = 0
  /\ classNum = 0
  /\ classNames = getClassNamesFromFile(svm).names
  /\ offsetToVectors = OffsetToVectors(classNames)
  /\ initial = [ran |-> TRUE, ok |-> TRUE, file |-> svm]
  /\ prev = <<>>
  /\ last = NoTraining
  /\ result = NoResult
  /\ log = <<>>

TrainVectorsOnce ==
  /\ pc = "vectors"
  /\ ~last.ran
  /\ \E c \in 0..(Len(classNames) - 1) :
       \E q \in 1..Len(Queries) :
         \E step \in 0..MaxSteps :
           \E r \in {trainVectorsWithSample(svm, Queries[q], offsetToVectors, c,
                                            Len(classNames), LearnRate(step))} :
             /\ svm' = r.file
             /\ prev' = svm
             /\ last' = [ran |-> TRUE, ok |-> r.ok, classNum |-> c,
                         numClasses |-> Len(classNames),
                         normDivisor |-> r.normDivisor,
                         height |-> getBmpDims(Queries[q]).height,
                         sample |-> Queries[q], calls |-> r.calls]
             /\ classNum' = c
             /\ stepNum' = step
  /\ UNCHANGED <<dirs, pc, classNames, offsetToVectors, initial, result, log>>

VectorsSpec == VectorsInit /\ [][TrainVectorsOnce]_vars

\* -------------------------------------------- trainVectorWithSample alone
\* trainVectorWithSample is a function of the vector, the sample and its
\* arguments: here it is applied once to the one vector of a store of 2
\* classes of 2 x 2 8-bit images, for every vector with components in
\* Components (-2.0, 0.0, sqrt(2), 3.0), every sample of non-zero norm, both
\* roles and every step.
Components == {-2 * Scale, 0, SqrtOfInt(2), 3 * Scale}

Samples == {Img1, Img3, ImgUp}

VectorInit ==
  /\ dirs = <<1, 1>>
  /\ initial = [ran |-> TRUE, ok |-> TRUE, file |-> initializeOutputFile(dirs).file]
  /\ classNames = getClassNamesFromFile(initial.file).names
  /\ offsetToVectors = OffsetToVectors(classNames)
  /\ \E v \in [1..4 -> Components] :
       svm = WriteAt(initial.file, offsetToVectors,
                     EncodeDouble(v[1]) \o EncodeDouble(v[2])
                       \o EncodeDouble(v[3]) \o EncodeDouble(v[4]))
  /\ pc = "vector"
  /\ stepNum = 0
  /\ classNum = 0
  /\ prev = <<>>
  /\ last = NoTraining
  /\ result = NoResult
  /\ log = <<>>

TrainVectorOnce ==
  /\ pc = "vector"
  /\ ~last.ran
  /\ \E sample \in Samples :
       \E isPositiveSample \in BOOLEAN :
         \E step \in 0..MaxSteps :
           \E r \in {CallTrain([ok |-> TRUE, file |-> svm, calls |-> <<>>,
                                 offsetVectors |-> 0],
                                [sample |-> sample,
                                 offsetToVectors |-> offsetToVectors,
                                 normDivisor |-> getNormDivisor(sample),
                                 learnRate |-> LearnRate(step)],
                                isPositiveSample)} :
             /\ svm' = r.file
             /\ prev' = svm
             /\ last' = [ran |-> TRUE, ok |-> r.ok, classNum |-> 0,
                         numClasses |-> 2,
                         normDivisor |-> getNormDivisor(sample),
                         height |-> getBmpDims(sample).height,
                         sample |-> sample, calls |-> r.calls]
             /\ stepNum' = step
  /\ UNCHANGED <<dirs, pc, classNum, classNames, offsetToVectors, initial, result, log>>

VectorSpec == VectorInit /\ [][TrainVectorOnce]_vars

\* ------------------------------------ trainVectorWithSample interrupted
\* A store of 3 classes of 2 x 2 8-bit images whose three vectors hold the
\* same components, and one trainVectorWithSample call on one of them that
\* is stopped after some of the writes of its second pass.
StoppedInit ==
  /\ dirs = <<1, 1, 1>>
  /\ initial = [ran |-> TRUE, ok |-> TRUE, file |-> initializeOutputFile(dirs).file]
  /\ classNames = getClassNamesFromFile(initial.file).names
  /\ offsetToVectors = OffsetToVectors(classNames)
  /\ \E v \in [1..4 -> {0, 3 * Scale}] :
       \E bytes \in {EncodeDouble(v[1]) \o EncodeDouble(v[2])
                       \o EncodeDouble(v[3]) \o EncodeDouble(v[4])} :
         svm = WriteAt(initial.file, offsetToVectors, bytes \o bytes \o bytes)
  /\ pc = "vector"
  /\ stepNum = 0
  /\ classNum = 0
  /\ prev = <<>>
  /\ last = NoTraining
  /\ result = NoResult
  /\ log = <<>>

StopVector ==
  /\ pc = "vector"
  /\ ~last.ran
  /\ \E sample \in Samples :
       \E isPositiveSample \in BOOLEAN :
         \E offsetVectors \in 0..2 :
           \E written \in 0..4 :
             \E r \in {StoppedInContext(
                          svm, sample,
                          TrainContext(sample, getBmpDims(sample), offsetVectors,
                                       offsetToVectors, getNormDivisor(sample),
                                       LearnRate(0), isPositiveSample),
                          written)} :
               /\ svm' = r.file
               /\ prev' = svm
               /\ last' = [ran |-> TRUE, ok |-> FALSE, classNum |-> 0,
                           numClasses |-> 3,
                           normDivisor |-> getNormDivisor(sample),
                           height |-> getBmpDims(sample).height,
                           sample |-> sample,
                           calls |-> <<[offsetVectors |-> offsetVectors,
                                        isPositiveSample |-> isPositiveSample,
                                        ok |-> FALSE,
                                        dotProduct |-> r.dotProduct,
                                        redirect |-> r.redirect,
                                        changed |-> ChangedBytes(svm, r.file),
                                        lenBefore |-> Len(svm),
                                        lenAfter |-> Len(r.file)]>>,
                           written |-> r.written]
  /\ UNCHANGED <<dirs, pc, stepNum, classNum, classNames, offsetToVectors, initial, result, log>>

StoppedSpec == StoppedInit /\ [][StopVector]_vars

\* ------------------------------------------- initializeOutputFile alone
\* A store the output path may hold before the call.
EarlierStore == initializeOutputFile(<<1, 1>>).file

\* access(pathToOutputFile, F_OK) and access(pathToOutputFile, W_OK)
CanOverwrite(before, writable) == before = <<>> \/ writable

\* A faulty variant of OpenOutput: the file is opened for appending.
OpenOutputAppending(before) == before

\* fopen(pathToOutputFile, "wb"): the file is created or truncated
OpenOutput(before) == <<>>

\* what initializeOutputFile has written when it gets to the class count
StreamOf(listing) ==
  WrittenBeforeCount(InitDirLoop([file |-> SvmMagicNumber \o <<SizeofDouble>>,
                                  width |-> 0, height |-> 0, bitsPerPixel |-> 0,
                                  numClasses |-> 0], listing, 1))

\* The lengths at which a stopped call may have left the file: after the
\* magic number, in the dimensions, after the placeholder of the class
\* count, in the last zero vector and after it.
Cuts(stream) ==
  {4, NumClassesFieldOffset - 2, NumClassesFieldOffset + 8,
   Len(stream) - 1, Len(stream)} \cap 0..Len(stream)

\* The ways the call can end: refused for want of permission, returned, or
\* stopped (the process interrupted) with a part of its writes in the file.
InitOutcomes(before, listing, writable) ==
  IF ~CanOverwrite(before, writable)
  THEN {[ok |-> FALSE, opened |-> FALSE, stopped |-> FALSE, file |-> before]}
  ELSE {[ok |-> r.ok, opened |-> TRUE, stopped |-> FALSE,
         file |-> OpenOutput(before) \o r.file] :
          r \in {initializeOutputFile(listing)}}
       \cup {[ok |-> FALSE, opened |-> TRUE, stopped |-> TRUE,
               file |-> OpenOutput(before) \o Slice(StreamOf(listing), 0, cut)] :
                cut \in Cuts(StreamOf(listing))}

CreationInit ==
  /\ dirs \in Listings
  /\ svm \in {<<>>, EarlierStore}
  /\ pc = "start"
  /\ stepNum = 0
  /\ classNum = 0
  /\ classNames = <<>>
  /\ offsetToVectors = 0
  /\ initial = NotInitialized
  /\ prev = <<>>
  /\ last = NoTraining
  /\ result = NoResult
  /\ log = <<>>

InitializeOutputFile ==
  /\ pc = "start"
  /\ \E writable \in BOOLEAN :
       \E o \in InitOutcomes(svm, dirs, writable) :
         /\ svm' = o.file
         /\ initial' = [ran |-> TRUE, ok |-> o.ok, file |-> o.file,
                        before |-> svm, opened |-> o.opened,
                        stopped |-> o.stopped]
         /\ pc' = IF o.ok THEN "done" ELSE "failed"
  /\ UNCHANGED <<dirs, stepNum, classNum, classNames, offsetToVectors, prev, last, result, log>>

CreationSpec == CreationInit /\ [][InitializeOutputFile \/ Classify]_vars

\* ---------------------------------------------- classifyFileFromSvm alone
\* classifyFileFromSvm takes any regular file for a store: here it is applied
\* to stores as createSvmFromDir leaves them and to the same files with one
\* header field changed, cut short or lengthened.
TrainedStore(file, sample, numClasses) ==
  trainVectorsWithSample(file, sample,
                         OffsetToVectors(getClassNamesFromFile(file).names),
                         0, numClasses, LearnRate(0)).file

WrittenStores ==
  {TrainedStore(initializeOutputFile([i \in 1..n |-> 1]).file, Img1, n) :
     n \in 2..MaxClasses}
    \cup {TrainedStore(initializeOutputFile(<<4, 4>>).file, Wide1, 2)}

FieldChanged(b) ==
  {WriteAt(b, 0, <<77>>), WriteAt(b, 3, <<77>>), WriteAt(b, 4, <<4>>),
   WriteAt(b, 5, LE(DecodeU(Slice(b, 5, 4)) + 1, 4)),
   WriteAt(b, 9, LE(-Decode(Slice(b, 9, 4)), 4)),
   WriteAt(b, 9, LE(Decode(Slice(b, 9, 4)) - 1, 4)),
   WriteAt(b, 13, LE(DecodeU(Slice(b, 13, 2)) + 8, 2)),
   WriteAt(b, NumClassesFieldOffset, LE(0, 8)),
   WriteAt(b, NumClassesFieldOffset, LE(1, 8)),
   WriteAt(b, NumClassesFieldOffset,
           LE(DecodeU(Slice(b, NumClassesFieldOffset, 8)) + 1, 8))}

LengthChanged(b) ==
  {SubSeq(b, 1, Len(b) - 1), SubSeq(b, 1, Len(b) - SizeofDouble),
   SubSeq(b, 1, OffsetToVectors(getClassNamesFromFile(b).names)),
   SubSeq(b, 1, NumClassesFieldOffset + 8), SubSeq(b, 1, 9),
   b \o <<0>>, b \o Zeros(SizeofDouble)}

Stores ==
  UNION {{b} \cup FieldChanged(b) \cup LengthChanged(b) : b \in WrittenStores}

StoresInit ==
  /\ dirs = <<>>
  /\ svm \in Stores
  /\ pc = "done"
  /\ stepNum = 0
  /\ classNum = 0
  /\ classNames = <<>>
  /\ offsetToVectors = 0
  /\ initial = NotInitialized
  /\ prev = <<>>
  /\ last = NoTraining
  /\ result = NoResult
  /\ log = <<>>

StoresSpec == StoresInit /\ [][Classify]_vars

\* ---------------------------------------------------------------- properties
\* C(n, 2)
Choose2(n) == (n * (n - 1)) \div 2

\* The closed form of the position of the vector of the pair (i, j), i < j,
\* among the vectors of a store of n classes.
Index(i, j, n) == i * n - (i * (i + 1)) \div 2 + (j - i - 1)

Pairs(n) == {p \in (0..(n - 1)) \X (0..(n - 1)) : p[1] < p[2]}

\* The header of the file initializeOutputFile left, and what follows from it.
StoreWidth == DecodeU(Slice(initial.file, 5, 4))

StoreHeight == Decode(Slice(initial.file, 9, 4))

StoreBitsPerPixel == DecodeU(Slice(initial.file, 13, 2))

StoreNumClasses == DecodeU(Slice(initial.file, NumClassesFieldOffset, 8))

StoreComponents == StoreWidth * Abs(StoreHeight) * (StoreBitsPerPixel \div 8)

VectorSize == StoreComponents * SizeofDouble

VectorsBase == OffsetToVectors(getClassNamesFromFile(initial.file).names)

\* The classes with the most votes, and that number of votes.
Winners(votes) ==
  {c \in 0..(Len(votes) - 1) : \A k \in 1..Len(votes) : votes[k] <= votes[c + 1]}

MaxVotes(votes) ==
  CHOOSE m \in Range(votes) : \A k \in 1..Len(votes) : votes[k] <= m

\* The votes counted are those of the dot products, pair by pair: of a pair
\* (i, j), i < j, a dot product above 0 is a vote for j and any other a vote
\* for i (positiveIsHigher), or the other way round.
VotesFollowDots(out, positiveIsHigher) ==
  /\ Len(out.dots) = Choose2(out.numClasses)
  /\ Len(out.picks) = Len(out.dots)
  /\ {<<out.picks[k][1], out.picks[k][2]>> : k \in 1..Len(out.picks)}
       = Pairs(out.numClasses)
  /\ \A c \in 0..(out.numClasses - 1) :
       out.votes[c + 1] =
         Cardinality({k \in 1..Len(out.dots) :
                        IF (out.dots[k] > 0) = positiveIsHigher
                        THEN out.picks[k][2] = c
                        ELSE out.picks[k][1] = c})

Classified == result.ran /\ result.out.ok

BlankClassified == Classified /\ result.out.normDivisor = 0

\* C1 (as the code has it): every pair (i, j), i < j, casts exactly one vote;
\* a dot product strictly greater than 0 casts it for class i, the lower
\* index, which is the class trained with the positive role on that vector,
\* and a dot product that is 0 or negative casts it for class j.
C1_PositiveDotVotesLower ==
  Classified => VotesFollowDots(result.out, FALSE)

\* C1 as stated: a dot product above 0 is a vote for class j, the higher
\* index, and any other a vote for class i.
C1_PositiveDotVotesHigher ==
  Classified => VotesFollowDots(result.out, TRUE)

C1_BothSigns ==
  /\ Classified
  /\ result.out.numClasses = 3
  /\ \E k \in 1..Len(result.out.dots) : result.out.dots[k] > 0
  /\ \E k \in 1..Len(result.out.dots) : result.out.dots[k] < 0

\* C2: a query whose norm divisor is 0, classified against a store of n >= 2
\* classes with any vectors, gives class n-1 exactly n-1 votes, reports class
\* n-1 alone, and reports 100%.
C2_BlankQueryVotesLast ==
  BlankClassified =>
    /\ result.out.numClasses >= 2
    /\ result.out.votes[result.out.numClasses] = result.out.numClasses - 1
    /\ result.out.report.classes = <<result.out.numClasses - 1>>
    /\ result.out.report.numVectorsFavor = result.out.numClasses - 1
    /\ result.out.report.percent = FromInt(100)

C2_BlankOnTrained ==
  /\ BlankClassified
  /\ result.out.numClasses = 3
  /\ pc = "done"
  /\ svm # initial.file

\* C3 (as the code has it): with a norm divisor of 0 class k ends the vote
\* loop with exactly k votes, one for each pair in which it is the higher
\* index; class 0 alone ends with none.
C3_BlankQueryVotesByIndex ==
  BlankClassified =>
    \A k \in 0..(result.out.numClasses - 1) : result.out.votes[k + 1] = k

\* C3 as stated: with a norm divisor of 0 every class other than n-1 ends the
\* vote loop with 0 votes.
C3_BlankQueryOthersZero ==
  BlankClassified =>
    \A k \in 0..(result.out.numClasses - 2) : result.out.votes[k + 1] = 0

C3_MiddleClassVoted ==
  /\ BlankClassified
  /\ result.out.numClasses = 3
  /\ result.out.votes = <<0, 1, 2>>

\* The vectors of class c in a store of n classes, each with the role of c.
ExpectedCalls(c, n) ==
  {<<Index(k, c, n), FALSE>> : k \in 0..(c - 1)}
    \cup {<<Index(c, k, n), TRUE>> : k \in (c + 1)..(n - 1)}

CallsMade ==
  {<<last.calls[k].offsetVectors, last.calls[k].isPositiveSample>> :
     k \in 1..Len(last.calls)}

\* C4 as stated: trainVectorsWithSample with a sample of non-zero norm calls
\* trainVectorWithSample exactly once for each vector of class c and for no
\* other: at index(k, c) with the negative role for k < c, at index(c, k)
\* with the positive role for k > c.
C4_EveryVectorOfClassOnce ==
  (last.ran /\ last.normDivisor > 0) =>
    /\ CallsMade = ExpectedCalls(last.classNum, last.numClasses)
    /\ Len(last.calls) = last.numClasses - 1

\* a bottom-up sample of non-zero norm: the first call fails, the others
\* are not made
C4_StoppedAtFirstVector ==
  /\ last.ran
  /\ last.normDivisor > 0
  /\ last.height > 0
  /\ last.numClasses = 3
  /\ Len(last.calls) = 1
  /\ ~last.calls[1].ok

\* The bytes of the vector at position p, as trainVectorWithSample seeks to it.
\* initializeOutputFile has returned and nothing has been done since:
\* `initial` and `dirs` do not change afterwards.
JustInitialized == initial.ran /\ ~last.ran /\ ~result.ran

\* what initializeOutputFile returned, and the input directory, stay as they
\* are: what holds of them when the call has returned holds from then on
InitialFrozen == [][initial.ran => UNCHANGED <<initial, dirs>>]_vars

RegionStart(p) ==
  VectorStart(VectorsBase, p, StoreWidth * Abs(StoreHeight),
              StoreBitsPerPixel \div 8)

Disjoint(p, q) ==
  \/ RegionStart(p) + VectorSize <= RegionStart(q)
  \/ RegionStart(q) + VectorSize <= RegionStart(p)

Bijective(n) ==
  /\ {Index(p[1], p[2], n) : p \in Pairs(n)} = 0..(Choose2(n) - 1)
  /\ Cardinality(Pairs(n)) = Choose2(n)
  /\ Index(0, 1, n) = 0
  /\ Index(n - 2, n - 1, n) = Choose2(n) - 1

\* C5: index(i, j) over 0 <= i < j < n is a bijection onto 0..C(n,2)-1,
\* from index(0, 1) = 0 to index(n-2, n-1) = C(n,2)-1; the regions training
\* seeks to for two pairs do not overlap, and each lies inside the vectors
\* the initializer wrote.
C5_RegionsApart ==
  /\ (JustInitialized /\ initial.ok) =>
       /\ Bijective(StoreNumClasses)
       /\ \A p, q \in 0..(Choose2(StoreNumClasses) - 1) :
            p # q => Disjoint(p, q)
       /\ \A p \in 0..(Choose2(StoreNumClasses) - 1) :
            /\ VectorsBase <= RegionStart(p)
            /\ RegionStart(p) + VectorSize <= Len(initial.file)
  /\ initial.ok =>
       \A k \in 1..Len(last.calls) :
         last.calls[k].offsetVectors \in 0..(Choose2(StoreNumClasses) - 1)

C5_ThreeWideVectors ==
  /\ initial.ok
  /\ StoreNumClasses = 3
  /\ StoreBitsPerPixel = 16
  /\ Len(last.calls) = 2

\* C6: trainVectorsWithSample with a sample whose norm divisor is 0 reports
\* success, calls trainVectorWithSample for no vector and leaves every byte
\* of the store as it was.
C6_BlankSampleNoUpdate ==
  (last.ran /\ last.normDivisor = 0) =>
    /\ last.ok
    /\ last.calls = <<>>
    /\ svm = prev

C6_BlankAfterTraining ==
  /\ last.ran
  /\ last.normDivisor = 0
  /\ last.classNum = 1
  /\ prev # initial.file

\* C7: for every array of vote counts the classes reported are exactly the
\* classes whose count is the maximum, each listed once.
C7_ReportsAllWinners ==
  Classified =>
    /\ Range(result.out.report.classes) = Winners(result.out.votes)
    /\ Len(result.out.report.classes) = Cardinality(Winners(result.out.votes))

C7_TwoTiedOneBelow ==
  /\ Classified
  /\ result.out.votes = <<2, 0, 2>>
  /\ result.out.report.classes = <<0, 2>>

\* C8: the percentage reported is maxVotes / (numClasses - 1) * 100 whatever
\* the number of winners, the counts reported are numWinners * maxVotes of
\* numWinners * (numClasses - 1), and the percentage is at most 100.
C8_Confidence ==
  Classified =>
    /\ result.out.report.percent
         = RoundDiv(MaxVotes(result.out.votes) * Scale,
                    result.out.numClasses - 1) * 100
    /\ result.out.report.totalVectorsFavor
         = Cardinality(Winners(result.out.votes)) * MaxVotes(result.out.votes)
    /\ result.out.report.totalVectorsRelevant
         = Cardinality(Winners(result.out.votes)) * (result.out.numClasses - 1)
    /\ result.out.report.percent <= FromInt(100)

C8_ThreeTiedBelowAll ==
  /\ Classified
  /\ result.out.votes = <<2, 2, 2, 1>>
  /\ result.out.report.totalVectorsFavor = 6
  /\ result.out.report.totalVectorsRelevant = 9

\* C9: when initializeOutputFile reports success for n classes the file is
\* the header, the class table and exactly C(n,2) vectors of
\* width * |height| * (bitsPerPixel / 8) components, each component 0.0;
\* for 2 classes of 2 x 2 at 8 bits per pixel, 1 vector of 4 components.
C9_ZeroVectors ==
  (JustInitialized /\ initial.ok) =>
    /\ Len(getClassNamesFromFile(initial.file).names) = StoreNumClasses
    /\ Len(initial.file)
         = VectorsBase + Choose2(StoreNumClasses) * StoreComponents * SizeofDouble
    /\ \A k \in 0..(Choose2(StoreNumClasses) * StoreComponents - 1) :
         /\ Slice(initial.file, VectorsBase + k * SizeofDouble, SizeofDouble)
              = EncodeDouble(0)
         /\ DecodeDouble(Slice(initial.file, VectorsBase + k * SizeofDouble,
                               SizeofDouble)) = 0
    /\ (/\ StoreNumClasses = 2
        /\ StoreWidth = 2
        /\ Abs(StoreHeight) = 2
        /\ StoreBitsPerPixel = 8)
         => Len(initial.file) = VectorsBase + 1 * 4 * SizeofDouble

C9_TwoClassesTwoByTwo ==
  /\ initial.ok
  /\ Len(dirs) = 2
  /\ StoreNumClasses = 2
  /\ StoreWidth = 2
  /\ Abs(StoreHeight) = 2
  /\ StoreBitsPerPixel = 8

\* The bytes of the vector at position p of the store.
VectorBytes(p) ==
  (VectorsBase + p * VectorSize)..(VectorsBase + (p + 1) * VectorSize - 1)

\* C10: after any training the header and the class table are as the
\* initializer wrote them and the file is as long; a call of
\* trainVectorWithSample on the vector at position p changes no byte outside
\* that vector.
C10_OnlyTheVectorChanges ==
  initial.ok =>
    /\ Len(svm) = Len(initial.file)
    /\ Slice(svm, 0, VectorsBase) = Slice(initial.file, 0, VectorsBase)
    /\ \A k \in 1..Len(last.calls) :
         /\ last.calls[k].lenAfter = last.calls[k].lenBefore
         /\ last.calls[k].changed \subseteq VectorBytes(last.calls[k].offsetVectors)

C10_SecondVectorChanged ==
  /\ initial.ok
  /\ last.numClasses = 3
  /\ \E k \in 1..Len(last.calls) :
       /\ last.calls[k].offsetVectors = 1
       /\ last.calls[k].changed # {}
  /\ prev # initial.file

\* The number of class directories initializeOutputFile accepts.
AcceptedClasses(listing) ==
  InitDirLoop([file |-> SvmMagicNumber \o <<SizeofDouble>>,
               width |-> 0, height |-> 0, bitsPerPixel |-> 0,
               numClasses |-> 0], listing, 1).numClasses

\* C11: initializeOutputFile reports failure whenever fewer than 2 class
\* directories are accepted, and createSvmFromDir then trains nothing.
C11_FewClassesNoTraining ==
  (initial.ran /\ AcceptedClasses(dirs) < 2) =>
    /\ ~initial.ok
    /\ pc = "failed"
    /\ ~last.ran
    /\ stepNum = 0
    /\ svm = initial.file

C11_OneOfThreeAccepted ==
  /\ initial.ran
  /\ Len(dirs) = 3
  /\ AcceptedClasses(dirs) = 1
  /\ pc = "failed"

\* The shape of the i-th class directory, and the first directory that has one.
DirShape(i) == allFilesSameDims(Populations[dirs[i]])

HasShape(i) == DirShape(i).ok

FirstShaped ==
  CHOOSE i \in 1..Len(dirs) : HasShape(i) /\ \A j \in 1..(i - 1) : ~HasShape(j)

Agrees(i) == HasShape(i) /\ DirShape(i) = DirShape(FirstShaped)

Disagrees(i) == HasShape(i) /\ DirShape(i) # DirShape(FirstShaped)

StoreNames == Range(getClassNamesFromFile(initial.file).names)

C13_PositiveShape ==
  initial.ok =>
    /\ StoreWidth > 0
    /\ Abs(StoreHeight) > 0
    /\ StoreBitsPerPixel % 8 = 0

\* two class directories without a BMP file: a store of shape 0 x 0
C13_EmptyDirsStore ==
  /\ initial.ok
  /\ Len(dirs) = 2
  /\ \A i \in 1..Len(dirs) : Populations[dirs[i]] = <<>>
  /\ StoreWidth = 0
  /\ StoreHeight = 0

\* The bytes changed by the calls of the last trainVectorsWithSample that
\* came before its last call.
EarlierChanges ==
  UNION {last.calls[k].changed : k \in 1..(Len(last.calls) - 1)}

FailedCallAborts ==
  (last.ran /\ ~last.ok) =>
    /\ pc = "failed"
    /\ last.calls # <<>>
    /\ \A k \in 1..(Len(last.calls) - 1) : last.calls[k].ok
    /\ ~last.calls[Len(last.calls)].ok
    /\ last.calls[Len(last.calls)].changed = {}
    /\ last.calls[Len(last.calls)].lenAfter = last.calls[Len(last.calls)].lenBefore
    /\ Len(svm) = Len(prev)
    /\ ChangedBytes(prev, svm) = EarlierChanges

\* C14: a trainVectorWithSample call that fails is the last call of the
\* training run: createSvmFromDir returns failure, nothing is retried, the
\* store is not touched again, and it holds what the earlier successful calls
\* wrote (no rollback).
C14_FailedCallEndsRun ==
  /\ []FailedCallAborts
  /\ [][pc = "failed" => UNCHANGED <<svm, prev, last, stepNum, classNum, pc>>]_vars

C14_FailedAfterTrainedClass ==
  /\ last.ran
  /\ ~last.ok
  /\ last.classNum = 1
  /\ prev # initial.file
  /\ svm = prev

\* C15 as stated: trainVectorsWithSample never passes to trainVectorWithSample
\* an offset that wrapped around: every offset it passes is the index of a
\* vector of the class, and it fails when such an index does not fit the
\* unsigned type.
C15_NoWrappedOffset ==
  last.ran =>
    /\ CallsMade \subseteq ExpectedCalls(last.classNum, last.numClasses)
    /\ (\E e \in ExpectedCalls(last.classNum, last.numClasses) :
          e[1] >= OffsetModulus) => ~last.ok

\* the positive loop steps from offset 2^w - 1 to offset 0 and trains the
\* vector of the pair (0, 1) for a later class
C15_WrappedOffsetPassed ==
  /\ last.ran
  /\ last.ok
  /\ last.classNum > 0
  /\ <<0, TRUE>> \in CallsMade
  /\ \E e \in ExpectedCalls(last.classNum, last.numClasses) : e[1] = OffsetModulus

\* What classifyFileFromSvm was given: the dimensions of the file to
\* classify and the header fields of the store (a field that is not there
\* differs).
QueryDims == getBmpDims(Queries[result.query])

BadMagic == ~CanRead(svm, 0, 4) \/ Slice(svm, 0, 4) # SvmMagicNumber

BadDoubleSize == ~CanRead(svm, 4, 1) \/ svm[5] # SizeofDouble

ShapeDiffers ==
  \/ ~CanRead(svm, 5, 4 + 4 + 2)
  \/ DecodeU(Slice(svm, 5, 4)) # QueryDims.width
  \/ Abs(Decode(Slice(svm, 9, 4))) # Abs(QueryDims.height)
  \/ DecodeU(Slice(svm, 13, 2)) # QueryDims.bitsPerPixel

TooFewClasses ==
  \/ ~CanRead(svm, NumClassesFieldOffset, 8)
  \/ DecodeU(Slice(svm, NumClassesFieldOffset, 8)) < 2

\* C16: classifyFileFromSvm fails when the store's magic token is not NSVM,
\* its floating-point width is not sizeof(double), the query's width,
\* |height| or bitsPerPixel differs from the store's, or numClasses < 2; a
\* failed classification prints no result, and a result is printed only
\* after all C(n, 2) dot products.
C16_BadHeaderNoResult ==
  result.ran =>
    /\ (BadMagic \/ BadDoubleSize \/ ShapeDiffers \/ TooFewClasses)
         => ~result.out.ok
    /\ ~result.out.ok => result.out.report = NoReport /\ result.out.votes = <<>>
    /\ result.out.ok => Len(result.out.dots) = Choose2(result.out.numClasses)

\* a store that differs from the query in the magnitude of the height only
C16_OnlyHeightDiffers ==
  /\ result.ran
  /\ ~BadMagic
  /\ ~BadDoubleSize
  /\ ~TooFewClasses
  /\ DecodeU(Slice(svm, 5, 4)) = QueryDims.width
  /\ DecodeU(Slice(svm, 13, 2)) = QueryDims.bitsPerPixel
  /\ Abs(Decode(Slice(svm, 9, 4))) # Abs(QueryDims.height)
  /\ ~result.out.ok

\* The size the header of the store implies: the class table, then C(n, 2)
\* vectors of width * |height| * (bitsPerPixel / 8) doubles.
HeaderSize(file, numClasses) ==
  SkipNamesLoop(file, NumClassesFieldOffset + 8, numClasses)
    + Choose2(numClasses)
        * (DecodeU(Slice(file, 5, 4)) * Abs(Decode(Slice(file, 9, 4)))
             * (DecodeU(Slice(file, 13, 2)) \div 8))
        * SizeofDouble

SizeMismatch ==
  \/ ~CanRead(svm, 0, NumClassesFieldOffset + 8)
  \/ SkipNamesLoop(svm, NumClassesFieldOffset + 8,
                   DecodeU(Slice(svm, NumClassesFieldOffset, 8))) < 0
  \/ Len(svm) # HeaderSize(svm, DecodeU(Slice(svm, NumClassesFieldOffset, 8)))

\* C17 as stated: a store whose size is not the size its header implies is
\* rejected by classifyFileFromSvm, whatever the query, and no result is
\* printed.
C17_WrongSizeRejected ==
  (result.ran /\ SizeMismatch) =>
    ~result.out.ok /\ result.out.report = NoReport

\* a store cut short, classified with a query of norm 0
C17_ShortStoreClassified ==
  /\ result.ran
  /\ result.out.ok
  /\ result.out.normDivisor = 0
  /\ CanRead(svm, 0, NumClassesFieldOffset + 8)
  /\ Len(svm) < HeaderSize(svm, DecodeU(Slice(svm, NumClassesFieldOffset, 8)))
  /\ result.out.report # NoReport

\* The k-th channel byte (from 0) of a BMP file of fields d in canonical
\* order: top row first, left to right, the channels of a pixel in file
\* order, the padding of the rows left out.
ChannelByte(file, d, k) ==
  file[d.headersSize
         + (IF d.height < 0 THEN k \div (d.width * (d.bitsPerPixel \div 8))
            ELSE (Abs(d.height) - 1) - (k \div (d.width * (d.bitsPerPixel \div 8))))
             * (d.width * (d.bitsPerPixel \div 8)
                  + BmpRowPad(d.width, d.bitsPerPixel))
         + (k % (d.width * (d.bitsPerPixel \div 8)))
         + 1]

NumChannelBytes(d) == d.width * Abs(d.height) * (d.bitsPerPixel \div 8)

\* The k-th component (from 0) of the vector at 0-based position start.
Component(file, start, k) ==
  DecodeDouble(Slice(file, start + k * SizeofDouble, SizeofDouble))

\* sum over the first n components of v_k * b_k / normDivisor
RECURSIVE DotOfFirst(_, _, _, _, _)
DotOfFirst(file, start, sample, normDivisor, n) ==
  IF n = 0 THEN 0
  ELSE DotOfFirst(file, start, sample, normDivisor, n - 1)
         + FDiv(Component(file, start, n - 1)
                  * ChannelByte(sample, BmpFields(sample), n - 1),
                normDivisor)

\* y * dot for the last call, from the vector as it was before the call
Margin ==
  (IF last.calls[1].isPositiveSample THEN 1 ELSE -1)
    * DotOfFirst(prev, offsetToVectors, last.sample, last.normDivisor,
                 NumChannelBytes(BmpFields(last.sample)))

\* C18: a call of trainVectorWithSample that gets to the update takes the
\* redirect branch exactly when y * dot < 1 and the shrink branch exactly
\* when y * dot >= 1, with y = +1 for the positive role, -1 for the negative
\* one, and dot computed from the components before the call; an all-zero
\* vector takes the redirect branch.
C18_BranchByMargin ==
  (last.ran /\ last.ok) =>
    /\ Len(last.calls) = 1
    /\ last.calls[1].dotProduct = Margin
    /\ last.calls[1].redirect <=> Margin < FromInt(1)
    /\ (\A k \in 0..3 : Component(prev, offsetToVectors, k) = 0)
         => last.calls[1].redirect

\* the negative role with a dot product of -2.0 or less: the shrink branch
C18_NegativeRoleShrinks ==
  /\ last.ran
  /\ last.ok
  /\ ~last.calls[1].isPositiveSample
  /\ ~last.calls[1].redirect
  /\ Margin >= FromInt(2)

\* y * b / normDivisor for the k-th channel byte of the last sample
SampleTerm(k) ==
  (IF last.calls[1].isPositiveSample THEN 1 ELSE -1)
    * FDiv(FromInt(ChannelByte(last.sample, BmpFields(last.sample), k)),
           last.normDivisor)

\* C19: the redirect branch replaces every component v_k by
\* v_k - eta * (lambda * v_k - y * b_k / normDivisor) and the shrink branch
\* by v_k - eta * lambda * v_k, each from the value the component had before
\* the call and with the k-th channel byte of the sample; nothing else in
\* the store changes.
C19_ComponentUpdate ==
  (last.ran /\ last.ok) =>
    /\ Len(svm) = Len(prev)
    /\ \A p \in ChangedBytes(prev, svm) :
         p >= offsetToVectors /\ p < offsetToVectors + 4 * SizeofDouble
    /\ \A k \in 0..3 :
         Component(svm, offsetToVectors, k) =
           IF last.calls[1].redirect
           THEN Component(prev, offsetToVectors, k)
                  - FMul(LearnRate(stepNum),
                         FMul(Lambda, Component(prev, offsetToVectors, k))
                           - SampleTerm(k))
           ELSE Component(prev, offsetToVectors, k)
                  - FMul(FMul(LearnRate(stepNum), Lambda),
                         Component(prev, offsetToVectors, k))

\* the redirect branch with the negative role on a sample with a non-zero
\* byte, and components that change
C19_NegativeRedirect ==
  /\ last.ran
  /\ last.ok
  /\ last.calls[1].redirect
  /\ ~last.calls[1].isPositiveSample
  /\ \E k \in 0..3 : SampleTerm(k) < 0
  /\ Component(prev, offsetToVectors, 0) = 3 * Scale
  /\ Component(svm, offsetToVectors, 0) # Component(prev, offsetToVectors, 0)

\* the sum of the squares of the first n channel bytes of a BMP file
RECURSIVE SquaresOfFirst(_, _)
SquaresOfFirst(sample, n) ==
  IF n = 0 THEN 0
  ELSE SquaresOfFirst(sample, n - 1)
         + ChannelByte(sample, BmpFields(sample), n - 1)
             * ChannelByte(sample, BmpFields(sample), n - 1)

SumOfSquares(sample) ==
  SquaresOfFirst(sample, NumChannelBytes(BmpFields(sample)))

\* C20 as stated: the norm divisor trainVectorsWithSample gets from
\* getNormDivisor is the square root of the sum of the squares of all
\* width * |height| * (bitsPerPixel / 8) channel bytes of the sample, and it
\* is 0 only if every channel byte is 0.
C20_NormOfAllChannelBytes ==
  last.ran =>
    /\ last.normDivisor = SqrtOfInt(SumOfSquares(last.sample))
    /\ last.normDivisor = 0 <=> SumOfSquares(last.sample) = 0

\* a 16-bit sample with non-zero channel bytes and a norm divisor of 0
C20_ZeroNormOfNonZeroSample ==
  /\ last.ran
  /\ last.ok
  /\ BmpFields(last.sample).bitsPerPixel = 16
  /\ SumOfSquares(last.sample) > 0
  /\ last.normDivisor = 0
  /\ svm = prev

\* C21 as stated: trainVectorWithSample pairs the components of the vector
\* with the channel bytes of the sample top row first, left to right, the
\* padding of the rows skipped, for a sample stored top-down as for one
\* stored bottom-up: every seek lands inside the pixel data, so the call
\* does not fail, and the dot product it finds is the one of that sequence.
C21_CanonicalBytes ==
  last.ran =>
    /\ last.ok
    /\ last.calls[1].dotProduct = Margin

\* a bottom-up sample: the seek from the end of the file lands past it and
\* the call fails without a byte of the sample read
C21_BottomUpFails ==
  /\ last.ran
  /\ ~last.ok
  /\ last.height > 0
  /\ SeekTopLeft(last.sample, [height |-> last.height, width |-> 2,
                               rowPadding |-> RowPadding(2),
                               offsetToSampleData |-> BmpHeaderSize])
       >= Len(last.sample)
  /\ svm = prev

\* the dot product of the query of the last classification with the k-th
\* vector (from 0) of the store, taken from the bytes of the store
DotWithVector(k) ==
  DotOfFirst(svm, VectorsBase + k * VectorSize, Queries[result.query],
             result.out.normDivisor,
             NumChannelBytes(BmpFields(Queries[result.query])))

\* C22: classifyFileFromSvm evaluates the pairs (0,1), (0,2), ..., (n-2,n-1)
\* in this order, each exactly once, and for a query of non-zero norm the
\* k-th pair is evaluated against the k-th vector of the store, the vectors
\* being read one after the other.
C22_PairsInOrder ==
  Classified =>
    /\ Len(result.out.picks) = Choose2(result.out.numClasses)
    /\ Len(result.out.dots) = Choose2(result.out.numClasses)
    /\ \A k \in 1..Len(result.out.picks) :
         /\ result.out.picks[k][1] < result.out.picks[k][2]
         /\ result.out.picks[k][2] < result.out.numClasses
         /\ Index(result.out.picks[k][1], result.out.picks[k][2],
                  result.out.numClasses) = k - 1
         /\ result.out.normDivisor > 0 =>
              result.out.dots[k] = DotWithVector(k - 1)

\* three classes, three vectors with three different dot products
C22_ThreeDifferentVectors ==
  /\ Classified
  /\ result.out.numClasses = 3
  /\ result.out.normDivisor > 0
  /\ result.out.dots[1] # result.out.dots[2]
  /\ result.out.dots[2] # result.out.dots[3]
  /\ result.out.dots[1] # result.out.dots[3]

\* The last trainVectorsWithSample returned false though no call it made
\* failed: it stopped at one of its overflow tests.
OverflowAbort ==
  /\ last.ran
  /\ ~last.ok
  /\ last.normDivisor > 0
  /\ \A k \in 1..Len(last.calls) : last.calls[k].ok

\* C23 as stated: when the offset arithmetic of trainVectorsWithSample
\* overflows, no trainVectorWithSample call was made before the abort and
\* no vector was written for that sample.
C23_OverflowBeforeAnyCall ==
  OverflowAbort => last.calls = <<>> /\ svm = prev

\* the step to the first positive vector overflows after the negative
\* calls have rewritten their vectors
C23_AbortAfterWrites ==
  /\ OverflowAbort
  /\ Len(last.calls) = last.classNum
  /\ \A k \in 1..Len(last.calls) :
       ~last.calls[k].isPositiveSample /\ last.calls[k].changed # {}
  /\ svm # prev

\* where the vector of the last call starts (2 x 2 8-bit images)
TargetStart == offsetToVectors + last.calls[1].offsetVectors * 4 * SizeofDouble

\* the value the last call gives the k-th component of its vector
UpdatedComponent(k) ==
  IF last.calls[1].redirect
  THEN Component(prev, TargetStart, k)
         - FMul(LearnRate(stepNum),
                FMul(Lambda, Component(prev, TargetStart, k)) - SampleTerm(k))
  ELSE Component(prev, TargetStart, k)
         - FMul(FMul(LearnRate(stepNum), Lambda), Component(prev, TargetStart, k))

\* C24: wherever a trainVectorWithSample call is stopped, the file has the
\* length it had, every byte outside the target vector is what it was, and
\* the target vector is a prefix of updated components followed by
\* components that still hold their values from before the call.
C24_PrefixUpdated ==
  last.ran =>
    /\ Len(svm) = Len(prev)
    /\ \A p \in ChangedBytes(prev, svm) :
         p >= TargetStart /\ p < TargetStart + 4 * SizeofDouble
    /\ \A k \in 0..3 :
         Component(svm, TargetStart, k) =
           IF k < last.written THEN UpdatedComponent(k)
           ELSE Component(prev, TargetStart, k)

\* the middle vector of three, stopped after two of its four writes, with
\* a component that changed and one that has not been reached
C24_HalfUpdated ==
  /\ last.ran
  /\ last.written = 2
  /\ last.calls[1].offsetVectors = 1
  /\ Component(svm, TargetStart, 0) # Component(prev, TargetStart, 0)
  /\ UpdatedComponent(3) # Component(prev, TargetStart, 3)
  /\ Component(svm, TargetStart, 3) = Component(prev, TargetStart, 3)

\* the trainVectorWithSample calls of the current step on the vector at
\* index v, as <<class of the sample, role>>
RolesOn(v) ==
  {p \in (0..(MaxClasses - 1)) \X BOOLEAN :
     \E e \in 1..Len(log) :
       /\ log[e].classNum = p[1]
       /\ \E m \in 1..Len(log[e].calls) :
            /\ log[e].calls[m].offsetVectors = v
            /\ log[e].calls[m].isPositiveSample = p[2]}

\* C25: the class whose sample a vector was trained with in the positive
\* role is the first class of the pair the classifier reads the vector for,
\* and it is the class voted for when the dot product is greater than 0;
\* the class trained in the negative role is not.
C25_SignAgreement ==
  Classified =>
    \A k \in 1..Len(result.out.picks) :
      \A p \in RolesOn(k - 1) :
        /\ p[2] => p[1] = result.out.picks[k][1]
        /\ ~p[2] => p[1] = result.out.picks[k][2]
        /\ result.out.dots[k] > 0 => (p[2] <=> result.out.picks[k][3] = p[1])

\* three classes trained, and a query whose dot product with the vector of
\* classes 1 and 2 is positive: the vote goes to class 1, trained positive
C25_PositiveRoleWins ==
  /\ Classified
  /\ pc = "done"
  /\ result.out.numClasses = 3
  /\ RolesOn(2) = {<<1, TRUE>>, <<2, FALSE>>}
  /\ result.out.dots[3] > 0
  /\ result.out.picks[3] = <<1, 2, 1>>

\* A training step has been gone through with samples of non-zero norm and
\* no failure.
StepDone ==
  /\ Len(log) = Len(classNames)
  /\ Len(log) >= 2
  /\ \A e \in 1..Len(log) : log[e].ok /\ log[e].normDivisor > 0

\* the trainVectorWithSample calls of the first e classes of the step
RECURSIVE CallsInStep(_)
CallsInStep(e) == IF e = 0 THEN 0 ELSE CallsInStep(e - 1) + Len(log[e].calls)

\* the calls the e-th class of the step made on the vector at index v
CallsOn(e, v) ==
  {m \in 1..Len(log[e].calls) : log[e].calls[m].offsetVectors = v}

\* the bytes of the vector at index v in a store file
VectorIn(file, v) == Slice(file, offsetToVectors + v * VectorSize, VectorSize)

\* the dot product of the sample of the e-th class of the step with the
\* vector at index v as it was before that class was trained
DotBefore(e, v) ==
  DotOfFirst(log[e].before, offsetToVectors + v * VectorSize, log[e].sample,
             log[e].normDivisor, NumChannelBytes(BmpFields(log[e].sample)))

\* C26: in a training step in which every sample has non-zero norm and
\* nothing fails, the classes are taken in ascending order, n * (n - 1)
\* calls of trainVectorWithSample are made, and the vector of every pair
\* i < j gets exactly two of them: one by class i, in the positive role, and
\* a later one by class j, in the negative role, which finds the vector as
\* class i left it and computes its dot product from these components.
C26_EachVectorTwice ==
  StepDone =>
    /\ \A e \in 1..Len(log) : log[e].classNum = e - 1
    /\ CallsInStep(Len(log)) = Len(log) * (Len(log) - 1)
    /\ \A p \in Pairs(Len(log)) :
         \A v \in {Index(p[1], p[2], Len(log))} :
           /\ \A e \in 1..Len(log) :
                Cardinality(CallsOn(e, v)) =
                  IF e - 1 = p[1] \/ e - 1 = p[2] THEN 1 ELSE 0
           /\ \A m \in CallsOn(p[1] + 1, v) :
                /\ log[p[1] + 1].calls[m].isPositiveSample
                /\ log[p[1] + 1].calls[m].dotProduct = DotBefore(p[1] + 1, v)
           /\ \A m \in CallsOn(p[2] + 1, v) :
                /\ ~log[p[2] + 1].calls[m].isPositiveSample
                /\ log[p[2] + 1].calls[m].dotProduct = - DotBefore(p[2] + 1, v)
           /\ VectorIn(log[p[2] + 1].before, v) = VectorIn(log[p[1] + 1].after, v)

\* three classes: class 1 changed the zero vector of the pair (1, 2), and
\* class 2 then found a dot product with it that is not 0
C26_SecondReadsFirst ==
  /\ StepDone
  /\ Len(log) = 3
  /\ VectorIn(log[2].before, 2) = Zeros(VectorSize)
  /\ VectorIn(log[2].after, 2) # Zeros(VectorSize)
  /\ \E m \in CallsOn(3, 2) : log[3].calls[m].dotProduct < 0

\* The call opened the output and did not get to its end: it returned
\* false or was stopped.
Unfinished == initial.ran /\ initial.opened /\ ~initial.ok

\* C27: the class count of the header is the placeholder 0 until the last
\* zero vector is written and is set by the final write only: a file left
\* by an initialization that failed or was stopped has no complete header
\* or a class count of 0, and classifyFileFromSvm rejects it; a file left by
\* one that returned true has its class count.
C27_PlaceholderUntilLastWrite ==
  /\ Unfinished =>
       /\ \/ Len(svm) < NumClassesFieldOffset + 8
          \/ DecodeU(Slice(svm, NumClassesFieldOffset, 8)) = 0
       /\ result.ran => ~result.out.ok /\ result.out.report = NoReport
  /\ (initial.ran /\ initial.ok) =>
       DecodeU(Slice(svm, NumClassesFieldOffset, 8))
         = Len(getClassNamesFromFile(svm).names)

\* stopped after the last zero vector of a store of three classes, before
\* the class count is written: a query of the store's shape is rejected
C27_StoppedBeforeCount ==
  /\ Unfinished
  /\ initial.stopped
  /\ svm = StreamOf(dirs)
  /\ Len(svm) = Len(initializeOutputFile(<<1, 1, 1>>).file)
  /\ DecodeU(Slice(svm, NumClassesFieldOffset, 8)) = 0
  /\ result.ran
  /\ result.query = 1
  /\ ~result.out.ok

\* the length of the file when initializeOutputFile has written the last
\* class name: the position of its first vector component
FirstComponentWritten ==
  Len(InitDirLoop([file |-> SvmMagicNumber \o <<SizeofDouble>>,
                   width |-> 0, height |-> 0, bitsPerPixel |-> 0,
                   numClasses |-> 0], dirs, 1).file)

\* the position of classifyFileFromSvm in the store after it has skipped
\* the class count and the class table
FirstVectorRead ==
  SkipNamesLoop(svm, NumClassesFieldOffset + 8,
                DecodeU(Slice(svm, NumClassesFieldOffset, 8)))

\* C28: the offsetToVectors createSvmFromDir computes from the class names,
\* the position at which initializeOutputFile wrote its first vector
\* component and the position at which classifyFileFromSvm starts to read
\* the vectors are the same.
C28_VectorsStartAgreed ==
  pc \in {"train", "done"} =>
    /\ offsetToVectors = FirstComponentWritten
    /\ offsetToVectors = FirstVectorRead
    /\ offsetToVectors =
         4 + 1 + 4 + 4 + 2 + 8 + Len(classNames) + SumNameLengths(classNames)

\* three classes with names of different lengths, and a store that has
\* been trained
C28_ThreeNames ==
  /\ pc = "done"
  /\ Len(classNames) = 3
  /\ Len(classNames[1]) # Len(classNames[2])
  /\ offsetToVectors = FirstVectorRead
  /\ svm # initial.file

\* the sum of the first k counts
RECURSIVE SumVotes(_, _)
SumVotes(votes, k) == IF k = 0 THEN 0 ELSE SumVotes(votes, k - 1) + votes[k]

\* The vote loop of the last classification after its first m pairs: the
\* votes counted again, pair by pair, from the dot products it found.
RECURSIVE VotesAfter(_)
VotesAfter(m) ==
  IF m = 0
  THEN [ok |-> TRUE, svmPos |-> 0,
        votes |-> [c \in 1..result.out.numClasses |-> 0],
        dots |-> <<>>, picks |-> <<>>]
  ELSE CountVote(VotesAfter(m - 1),
                 [ok |-> TRUE, svmPos |-> 0,
                  dotProduct |-> result.out.dots[m]],
                 result.out.picks[m][1], result.out.picks[m][2])

\* C29: in the vote loop of classifyFileFromSvm the counts of the classes
\* add up to the number of pairs evaluated so far; at its end they add up
\* to C(n,2), no class has more than n - 1 votes and some class has at
\* least 1.
C29_VotesAddUp ==
  Classified =>
    /\ \A m \in 0..Len(result.out.picks) :
         SumVotes(VotesAfter(m).votes, result.out.numClasses) = m
    /\ VotesAfter(Len(result.out.picks)).votes = result.out.votes
    /\ SumVotes(result.out.votes, result.out.numClasses)
         = Choose2(result.out.numClasses)
    /\ \A c \in 1..result.out.numClasses :
         result.out.votes[c] <= result.out.numClasses - 1
    /\ \E c \in 1..result.out.numClasses : result.out.votes[c] >= 1

\* three classes and three pairs: one class with both of its votes, one
\* with one and one with none
C29_TwoOneNone ==
  /\ Classified
  /\ result.out.numClasses = 3
  /\ result.out.normDivisor > 0
  /\ Range(result.out.votes) = {0, 1, 2}
  /\ VotesAfter(2).votes # result.out.votes

\* the file begins with the bytes of the earlier one
StillHolds(file, before) ==
  Len(file) >= Len(before) /\ Slice(file, 0, Len(before)) = before

\* C30: initializeOutputFile truncates the output before it looks at the
\* class directories: once it has opened the path, what the path holds is
\* what this call wrote and nothing of what it held before, so after a call
\* that returned false (or was stopped) the earlier store is gone.
C30_EarlierStoreDiscarded ==
  /\ (initial.ran /\ initial.opened /\ ~initial.stopped) =>
       svm = initializeOutputFile(dirs).file
  /\ (Unfinished /\ initial.before # <<>>) =>
       /\ svm # initial.before
       /\ ~StillHolds(svm, initial.before)

\* one class directory only, on a path that held a store of two classes:
\* the call returns false, the file is the header with a class count of 0
\* and the query the earlier store would have classified is rejected
C30_FailedOverEarlierStore ==
  /\ Unfinished
  /\ ~initial.stopped
  /\ initial.before = EarlierStore
  /\ Len(dirs) = 1
  /\ Len(svm) > NumClassesFieldOffset + 8
  /\ Len(svm) < Len(EarlierStore)
  /\ result.ran
  /\ result.query = 1
  /\ ~result.out.ok
  /\ classifyFileFromSvm(Queries[1], EarlierStore).ok

====
